---- MODULE Spec2Model ----
(***************************************************************************)
(* Model of the input-resolution and download-session controller of        *)
(* src/src/App.tsx (the App component and its helper functions).            *)
(*                                                                         *)
(* Text is modelled as a sequence of one-character strings, so that the    *)
(* conversions (secondsToHms, hmsToSeconds, parseInput) are computed as    *)
(* the code computes them.  A JavaScript number that may be NaN is a       *)
(* record [nan, v].  A React state variable is a variable of the model; an *)
(* event handler together with the render and the effects it causes is one *)
(* action (React flushes the render and the effects of an event before the *)
(* next event is handled).                                                 *)
(***************************************************************************)
EXTENDS Integers, Sequences, FiniteSets, TLC

\* ------------------------------------------------------------------------
\* Bounds of the model
\* ------------------------------------------------------------------------

\* Greatest number of metadata fetches outstanding at once.
MaxInFlight == 2

\* Greatest number of directory dialogs open at once.
MaxDialogs == 1

\* Greatest number of mounts of the controller.
MaxMounts == 2

\* Greatest count (current, total) of a progress snapshot whose percent is
\* computed.
MaxTotal == 10

\* Most save requests (clicks of the save button of the settings session)
\* made by one controller.
MaxSaves == 2

\* Most rounds of the two clamp effects that are followed after one write.
MaxRounds == 2


\* ------------------------------------------------------------------------
\* Text helpers
\* ------------------------------------------------------------------------

Digits == <<"0", "1", "2", "3", "4", "5", "6", "7", "8", "9">>

IsDigit(c) == \E i \in 1..10 : Digits[i] = c

DigitVal(c) == (CHOOSE i \in 1..10 : Digits[i] = c) - 1

Chars(s) == {s[i] : i \in 1..Len(s)}

\* String(v) for an integer v.
RECURSIVE NatToText(_)
NatToText(n) ==
  IF n < 10 THEN <<Digits[n + 1]>>
  ELSE NatToText(n \div 10) \o <<Digits[(n % 10) + 1]>>

NumberToString(v) == IF v < 0 THEN <<"-">> \o NatToText(-v) ELSE NatToText(v)

\* s.padStart(2, "0")
PadStart2(s) ==
  IF Len(s) >= 2 THEN s
  ELSE IF Len(s) = 1 THEN <<"0">> \o s
  ELSE <<"0", "0">>

\* s.split(":")
RECURSIVE SplitColon(_)
SplitColon(s) ==
  IF \A i \in 1..Len(s) : s[i] # ":" THEN <<s>>
  ELSE LET k == CHOOSE i \in 1..Len(s) :
                  s[i] = ":" /\ \A j \in 1..(i - 1) : s[j] # ":"
       IN <<SubSeq(s, 1, k - 1)>> \o SplitColon(SubSeq(s, k + 1, Len(s)))

\* A JavaScript number: an integer, or NaN.
Num(v) == [nan |-> FALSE, v |-> v]

NaN == [nan |-> TRUE, v |-> 0]

\* a >= b and a > b on JavaScript numbers: false when either is NaN.
JsGe(a, b) == ~a.nan /\ ~b.nan /\ a.v >= b.v

JsGt(a, b) == ~a.nan /\ ~b.nan /\ a.v > b.v

\* The value of the longest prefix of decimal digits of s (0 for none).
RECURSIVE DigitsValue(_, _)
DigitsValue(s, acc) ==
  IF s = <<>> \/ ~IsDigit(Head(s)) THEN acc
  ELSE DigitsValue(Tail(s), acc * 10 + DigitVal(Head(s)))

RECURSIVE TrimStart(_)
TrimStart(s) == IF s # <<>> /\ Head(s) = " " THEN TrimStart(Tail(s)) ELSE s

\* parseInt(p): leading blanks skipped, an optional sign, then the longest
\* prefix of decimal digits; NaN when there is no digit.  (No text of the
\* model holds the "0x" prefix, so the radix is 10.)
ParseInt(p) ==
  LET t == TrimStart(p)
      neg == t # <<>> /\ Head(t) = "-"
      u == IF t # <<>> /\ Head(t) \in {"-", "+"} THEN Tail(t) ELSE t
  IN IF u = <<>> \/ ~IsDigit(Head(u)) THEN NaN
     ELSE Num(IF neg THEN -DigitsValue(u, 0) ELSE DigitsValue(u, 0))

\* parseInt(p) || 0
ParseIntOr0(p) == IF ParseInt(p).nan THEN 0 ELSE ParseInt(p).v

\* ------------------------------------------------------------------------
\* Time codec
\* ------------------------------------------------------------------------

secondsToHms(sec) ==
  LET h == sec \div 3600
      m == (sec % 3600) \div 60
      s == sec % 60
  IN PadStart2(NumberToString(h)) \o <<":">> \o PadStart2(NumberToString(m))
       \o <<":">> \o PadStart2(NumberToString(s))

\* A decoder that reads the two characters of each field of "HH:MM:SS".
hmsToSecondsFixedWidth(hms) ==
  IF hms = <<>> \/ ":" \notin Chars(hms) THEN Num(0)
  ELSE IF Len(hms) < 8 THEN NaN
  ELSE Num(ParseIntOr0(SubSeq(hms, 1, 2)) * 3600
             + ParseIntOr0(SubSeq(hms, 4, 5)) * 60
             + ParseIntOr0(SubSeq(hms, 7, 8)))

\* parts[2] is undefined for a text with one colon, and the sum is NaN.
hmsToSeconds(hms) ==
  IF hms = <<>> \/ ":" \notin Chars(hms) THEN Num(0)
  ELSE LET parts == SplitColon(hms)
       IN IF Len(parts) < 3 THEN NaN
          ELSE Num(ParseIntOr0(parts[1]) * 3600 + ParseIntOr0(parts[2]) * 60
                     + ParseIntOr0(parts[3]))

\* ------------------------------------------------------------------------
\* Reference parser
\* ------------------------------------------------------------------------

Null == [type |-> "null"]

Letters ==
  {"a", "b", "c", "d", "e", "f", "g", "h", "i", "j", "k", "l", "m",
   "n", "o", "p", "q", "r", "s", "t", "u", "v", "w", "x", "y", "z",
   "A", "B", "C", "D", "E", "F", "G", "H", "I", "J", "K", "L", "M",
   "N", "O", "P", "Q", "R", "S", "T", "U", "V", "W", "X", "Y", "Z"}

IsAlnum(c) == IsDigit(c) \/ c \in Letters

\* "chzzk.naver.com/clips/" and "chzzk.naver.com/video/"
ClipUrl ==
  <<"c", "h", "z", "z", "k", ".", "n", "a", "v", "e", "r", ".", "c", "o", "m", "/",
     "c", "l", "i", "p", "s", "/">>

VideoUrl ==
  <<"c", "h", "z", "z", "k", ".", "n", "a", "v", "e", "r", ".", "c", "o", "m", "/",
     "v", "i", "d", "e", "o", "/">>

RECURSIVE TrimEnd(_)
TrimEnd(s) ==
  IF s # <<>> /\ s[Len(s)] = " " THEN TrimEnd(SubSeq(s, 1, Len(s) - 1)) ELSE s

Trim(s) == TrimEnd(TrimStart(s))

\* Whether the literal lit stands at index i of s.
LitAt(s, lit, i) ==
  i + Len(lit) - 1 <= Len(s) /\ SubSeq(s, i, i + Len(lit) - 1) = lit

\* The indices of s where lit stands, followed by a character of the class.
ClipMatches(s) ==
  {i \in 1..Len(s) :
     /\ LitAt(s, ClipUrl, i)
     /\ i + Len(ClipUrl) <= Len(s)
     /\ s[i + Len(ClipUrl)] \notin {"/", "?"}}

VideoMatches(s) ==
  {i \in 1..Len(s) :
     /\ LitAt(s, VideoUrl, i)
     /\ i + Len(VideoUrl) <= Len(s)
     /\ IsDigit(s[i + Len(VideoUrl)])}

Least(S) == CHOOSE i \in S : \A j \in S : i <= j

\* The longest run of [^/?] characters of s from index k on.
RECURSIVE ClipRun(_, _)
ClipRun(s, k) ==
  IF k > Len(s) \/ s[k] \in {"/", "?"} THEN <<>>
  ELSE <<s[k]>> \o ClipRun(s, k + 1)

\* The longest run of digits of s from index k on.
RECURSIVE DigitRun(_, _)
DigitRun(s, k) ==
  IF k > Len(s) \/ ~IsDigit(s[k]) THEN <<>>
  ELSE <<s[k]>> \o DigitRun(s, k + 1)

\* The parser with the two tests of a plain id in the other order.
parseInputAlnumFirst(input) ==
  LET trimmed == Trim(input)
  IN IF trimmed = <<>> THEN Null
     ELSE IF ClipMatches(trimmed) # {}
       THEN [type |-> "clip",
             id |-> ClipRun(trimmed, Least(ClipMatches(trimmed)) + Len(ClipUrl))]
     ELSE IF VideoMatches(trimmed) # {}
       THEN [type |-> "video",
             id |-> DigitRun(trimmed, Least(VideoMatches(trimmed)) + Len(VideoUrl))]
     ELSE IF \A i \in 1..Len(trimmed) : IsAlnum(trimmed[i])
       THEN [type |-> "clip", id |-> trimmed]
     ELSE IF \A i \in 1..Len(trimmed) : IsDigit(trimmed[i])
       THEN [type |-> "video", id |-> trimmed]
     ELSE Null

parseInput(input) ==
  LET trimmed == Trim(input)
  IN IF trimmed = <<>> THEN Null
     ELSE IF ClipMatches(trimmed) # {}
       THEN [type |-> "clip",
             id |-> ClipRun(trimmed, Least(ClipMatches(trimmed)) + Len(ClipUrl))]
     ELSE IF VideoMatches(trimmed) # {}
       THEN [type |-> "video",
             id |-> DigitRun(trimmed, Least(VideoMatches(trimmed)) + Len(VideoUrl))]
     ELSE IF \A i \in 1..Len(trimmed) : IsDigit(trimmed[i])
       THEN [type |-> "video", id |-> trimmed]
     ELSE IF \A i \in 1..Len(trimmed) : IsAlnum(trimmed[i])
       THEN [type |-> "clip", id |-> trimmed]
     ELSE Null

\* ------------------------------------------------------------------------
\* Values the environment supplies
\* ------------------------------------------------------------------------

\* Texts typed into the reference field: none, two videos, a clip, and a
\* second spelling of the first video.
Inputs == {<<>>, <<"1">>, <<"2">>, <<"a">>, <<"1", " ">>}

\* Durations (seconds) a metadata result may carry.
Durations == {0, 30, 120}

Q480 == [id |-> "q480", height |-> 480, bandwidth |-> 3000000]

Q1080 == [id |-> "q1080", height |-> 1080, bandwidth |-> 8000000]

\* Quality lists a metadata result may carry (the second is not sorted).
QualityLists == {<<>>, <<Q480, Q1080>>}

\* The answer of fetch_video_info for a video id, with the duration and the
\* qualities the backend found.
VodInfo(id, d, qs) ==
  [title |-> <<"title", id>>, channel |-> <<"channel", id>>,
   thumbnail |-> <<"thumbnail", id>>, duration |-> d, qualities |-> qs]

\* The answer of fetch_clip_info for a clip id.
ClipInfo(id) ==
  [title |-> <<"title", id>>, channel |-> <<"channel", id>>,
   thumbnail |-> <<"thumbnail", id>>]

\* "00:0000" (the text left when the second colon of "00:00:00" is deleted)
\* and "-1:00:00".
OneColonText == <<"0", "0", ":", "0", "0", "0", "0">>

NegativeHourText == <<"-", "1", ":", "0", "0", ":", "0", "0">>

\* Texts the start and end fields may be given by an edit: blank, well
\* formed ones, one with a single colon and one with a negative hour.
TimeTexts ==
  {<<>>, secondsToHms(0), secondsToHms(60), secondsToHms(180),
   OneColonText, NegativeHourText}

\* What the directory dialog returns: nothing (cancelled) or a directory.
DialogResults == {"", "/out"}

\* Progress snapshots the backend may emit.
Snapshots ==
  {[stage |-> "download", current |-> 1, total |-> 2, message |-> "half"],
   [stage |-> "ffmpeg-install", current |-> 0, total |-> 0, message |-> "start"]}

OutputPaths == {"/out/file.mp4"}

Failures == {"backend error"}

\* ------------------------------------------------------------------------
\* State
\* ------------------------------------------------------------------------

VARIABLES
  videoInput,          \* useState("")
  startTime,           \* useState("00:00:00")
  endTime,             \* useState("")
  outputDir,           \* useState("")
  isDownloading,       \* useState(false)
  progress,            \* useState(null)
  toast,               \* useState(null)
  preview,             \* useState(null)
  fetchingInfo,        \* useState(false)
  availableQualities,  \* useState([])
  selectedQuality,     \* useState("auto")
  ffmpegReady,         \* useState(null): "null", "true" or "false"
  installingFfmpeg,    \* useState(false)
  timers,              \* the references of the pending debounce timers
  fetches,             \* the metadata fetches outstanding, in start order
  downloads,           \* the download calls outstanding, in dispatch order
  installs,            \* the number of install_ffmpeg calls outstanding
  checkPending,        \* whether check_ffmpeg is outstanding
  dialogs,             \* the number of directory dialogs open
  trigger,             \* what became of the last event, when it was a click
                       \* on the download button: "ignored" or "handled";
                       \* "none" after any other event
  calc,                \* the evaluation of a helper function under study:
                       \* its argument and the results computed so far
  mounted,             \* whether the controller (the App component) is mounted
  mounts,              \* the number of mounts so far: the mounted controller,
                       \* or the last one torn down, is controller number mounts
  listeners,           \* the event subscriptions acquired so far, in the order
                       \* of the listen calls: the controller, the event, the
                       \* status at the event system, and whether the cleanup
                       \* of the effect has asked for the release
  showSettings,        \* useState(false): whether the settings session is open
  authMethod,          \* useState("cookie"): "cookie" or "login"
  nidAuth,             \* useState(""): the credential mirror, first value
  nidSession,          \* useState(""): the credential mirror, second value
  loginWebviewOpen,    \* useState(false): the awaiting-capture indicator
  saves,               \* the save requests (save_credentials and
                       \* open_login_webview calls) and the capture surfaces
                       \* not completed yet, in the order of the requests
  loadPending,         \* whether load_credentials is outstanding
  carets               \* the caret (selectionStart) of the start field and of
                       \* the end field

vars ==
  <<videoInput, startTime, endTime, outputDir, isDownloading, progress, toast,
    preview, fetchingInfo, availableQualities, selectedQuality, ffmpegReady,
    installingFfmpeg, timers, fetches, downloads, installs, checkPending,
    dialogs, trigger, calc, mounted, mounts, listeners, showSettings,
    authMethod, nidAuth, nidSession, loginWebviewOpen, saves, loadPending,
    carets>>

\* The variables of the credential session.
credentialVars ==
  <<showSettings, authMethod, nidAuth, nidSession, loginWebviewOpen, saves,
    loadPending>>

\* ------------------------------------------------------------------------
\* Derived values of a render
\* ------------------------------------------------------------------------

NoToast == [type |-> "none"]

NoProgress == [stage |-> "none"]

parsed == parseInput(videoInput)

isClip == parsed.type = "clip"

IsClipOf(text) == parseInput(text).type = "clip"

\* preview?.duration, 0 when there is no preview or no duration.
PreviewDuration(pv) ==
  IF pv.type = "preview" /\ pv.hasDuration THEN pv.duration ELSE 0

\* The effect that clamps the end time to the duration.
EndClamp(et, pv, clip) ==
  IF PreviewDuration(pv) = 0 \/ et = <<>> \/ clip THEN et
  ELSE IF JsGt(hmsToSeconds(et), Num(PreviewDuration(pv)))
    THEN secondsToHms(PreviewDuration(pv))
  ELSE et

Max(a, b) == IF a >= b THEN a ELSE b

\* The start clamp writing the duration itself.
StartClampToDuration(st, pv, clip) ==
  IF PreviewDuration(pv) = 0 \/ st = <<>> \/ clip THEN st
  ELSE IF JsGe(hmsToSeconds(st), Num(PreviewDuration(pv)))
    THEN secondsToHms(PreviewDuration(pv))
  ELSE st

\* The start clamp without Math.max(0, ...).
StartClampNoFloor(st, pv, clip) ==
  IF PreviewDuration(pv) = 0 \/ st = <<>> \/ clip THEN st
  ELSE IF JsGe(hmsToSeconds(st), Num(PreviewDuration(pv)))
    THEN secondsToHms(PreviewDuration(pv) - 60)
  ELSE st

\* The effect that clamps the start time below the duration.
StartClamp(st, pv, clip) ==
  IF PreviewDuration(pv) = 0 \/ st = <<>> \/ clip THEN st
  ELSE IF JsGe(hmsToSeconds(st), Num(PreviewDuration(pv)))
    THEN secondsToHms(Max(0, PreviewDuration(pv) - 60))
  ELSE st

\* The end of the selected range in seconds: the end time, or the duration.
EffectiveEnd(et, pv) ==
  IF et # <<>> THEN hmsToSeconds(et) ELSE Num(PreviewDuration(pv))

\* timeRangeError of a render: whether the blocking error is reported.
RangeError(st, et, pv, clip) ==
  IF clip \/ PreviewDuration(pv) = 0 THEN FALSE
  ELSE JsGe(hmsToSeconds(st), EffectiveEnd(et, pv))

timeRangeError == RangeError(startTime, endTime, preview, isClip)

isBusy == isDownloading \/ installingFfmpeg

needsFfmpeg == ~isClip /\ ffmpegReady = "false"

\* The percent rounded down.
progressPercentFloor ==
  IF progress # NoProgress /\ progress.total > 0
  THEN (progress.current * 100) \div progress.total
  ELSE 0

\* Math.round((current / total) * 100), the nearest integer and the greater
\* one of two equally near, when a snapshot with total > 0 is held; else 0.
progressPercent ==
  IF progress # NoProgress /\ progress.total > 0
  THEN (200 * progress.current + progress.total) \div (2 * progress.total)
  ELSE 0

\* The disabled attribute without the busy flag.
DownloadDisabledNoBusy == (needsFfmpeg /\ ~isClip) \/ timeRangeError

\* The disabled attribute without the range error.
DownloadDisabledNoRange == isBusy \/ (needsFfmpeg /\ ~isClip)

\* The disabled attribute of the download button.
DownloadDisabled == isBusy \/ (needsFfmpeg /\ ~isClip) \/ timeRangeError

\* The start and end times after the two clamp effects have run on the
\* values st and et of the render with preview pv.
RangeEffects(st, et, pv, clip) ==
  /\ startTime' = StartClamp(st, pv, clip)
  /\ endTime' = EndClamp(et, pv, clip)

NoDetail == "undefined"

\* showToast(type, message, detail)
Toast(type, message, detail) ==
  [type |-> type, message |-> message, detail |-> detail]

\* The message texts, in English.
MsgMissingId == "enter a video id or clip url"

MsgMissingDir == "choose the output directory"

MsgDownloadDone == "download complete"

MsgDownloadFailed == "download failed"

MsgInstallFailed == "ffmpeg install failed"

MsgLoginDone == "login succeeded, credentials saved"

MsgLoginOpened == "login window opened"

MsgSaved == "credentials saved"

MsgSaveFailed == "save failed"


\* The events the controller subscribes to on mount.
Events == <<"login-success", "download-progress">>

\* The subscriptions a mount acquires for controller g, one listen call per
\* event: the registration is pending until the call resolves.
Subscriptions(g) ==
  [k \in 1..Len(Events) |->
     [owner |-> g, event |-> Events[k], status |-> "pending", cleanup |-> FALSE]]

\* No helper function is under study.
NoCalc == [stage |-> "none"]

\* The state of the controller after construction.
InitState ==
  /\ videoInput = <<>>
  /\ startTime = secondsToHms(0)
  /\ endTime = <<>>
  /\ outputDir = ""
  /\ isDownloading = FALSE
  /\ progress = NoProgress
  /\ toast = NoToast
  /\ preview = Null
  /\ fetchingInfo = FALSE
  /\ availableQualities = <<>>
  /\ selectedQuality = "auto"
  /\ ffmpegReady = "null"
  /\ installingFfmpeg = FALSE
  /\ timers = {}
  /\ fetches = <<>>
  /\ downloads = <<>>
  /\ installs = 0
  /\ checkPending = TRUE
  /\ dialogs = 0
  /\ trigger = "none"
  /\ mounted = TRUE
  /\ mounts = 1
  /\ listeners = Subscriptions(1)
  /\ showSettings = FALSE
  /\ authMethod = "cookie"
  /\ nidAuth = ""
  /\ nidSession = ""
  /\ loginWebviewOpen = FALSE
  /\ saves = <<>>
  /\ loadPending = TRUE
  /\ carets = [start |-> 0, end |-> 0]

Init == InitState /\ calc = NoCalc

\* ------------------------------------------------------------------------
\* Metadata resolver
\* ------------------------------------------------------------------------

\* The resolver effect without its cleanup: the old timer stays armed.
TimersAfterNoCleanup(old, new) ==
  IF new = old THEN timers
  ELSE timers \cup (IF new = Null THEN {} ELSE {new})

\* The pending timers after the resolver effect has run for the new
\* reference: the cleanup of the old run clears its timer, and the new run
\* arms one unless there is no reference.
TimersAfter(old, new) ==
  IF new = old THEN timers
  ELSE (timers \ {old}) \cup (IF new = Null THEN {} ELSE {new})

\* The preview after the resolver effect has run for the new reference.
PreviewAfter(old, new) == IF new # old /\ new = Null THEN Null ELSE preview

\* onChange of the reference field (disabled while busy).
SetVideoInput(text) ==
  /\ ~isBusy
  /\ text # videoInput
  /\ videoInput' = text
  /\ timers' = TimersAfter(parsed, parseInput(text))
  /\ preview' = PreviewAfter(parsed, parseInput(text))
  /\ RangeEffects(startTime, endTime, PreviewAfter(parsed, parseInput(text)),
                  IsClipOf(text))
  /\ trigger' = "none"
  /\ mounted
  /\ UNCHANGED <<calc, mounted, mounts, listeners, credentialVars, carets>>
  /\ UNCHANGED <<outputDir, isDownloading, progress, toast, fetchingInfo,
                 availableQualities, selectedQuality, ffmpegReady,
                 installingFfmpeg, fetches, downloads, installs, checkPending,
                 dialogs>>

\* The debounce timer armed for the reference ref expires: the callback
\* sets the fetching flag and starts the fetch for that reference.
TimerFire(ref) ==
  /\ ref \in timers
  /\ Len(fetches) < MaxInFlight
  /\ fetchingInfo' = TRUE
  /\ fetches' = Append(fetches, [ref |-> ref])
  /\ timers' = timers \ {ref}
  /\ trigger' = "none"
  /\ mounted
  /\ UNCHANGED <<calc, mounted, mounts, listeners, credentialVars, carets>>
  /\ UNCHANGED <<videoInput, startTime, endTime, outputDir, isDownloading,
                 progress, toast, preview, availableQualities, selectedQuality,
                 ffmpegReady, installingFfmpeg, downloads, installs,
                 checkPending, dialogs>>

RemoveAt(seq, i) == SubSeq(seq, 1, i - 1) \o SubSeq(seq, i + 1, Len(seq))

\* q inserted into a list sorted by descending bandwidth, after its equals.
RECURSIVE InsertQuality(_, _)
InsertQuality(sorted, q) ==
  IF sorted = <<>> THEN <<q>>
  ELSE IF Head(sorted).bandwidth >= q.bandwidth
    THEN <<Head(sorted)>> \o InsertQuality(Tail(sorted), q)
  ELSE <<q>> \o sorted

\* [...qualities].sort((a, b) => b.bandwidth - a.bandwidth), a stable sort.
RECURSIVE SortQualities(_)
SortQualities(qs) ==
  IF qs = <<>> THEN <<>>
  ELSE InsertQuality(SortQualities(SubSeq(qs, 1, Len(qs) - 1)), qs[Len(qs)])

VideoPreview(info) ==
  [type |-> "preview", title |-> info.title, channel |-> info.channel,
   thumbnail |-> info.thumbnail, hasDuration |-> TRUE,
   duration |-> info.duration]

ClipPreview(info) ==
  [type |-> "preview", title |-> info.title, channel |-> info.channel,
   thumbnail |-> info.thumbnail, hasDuration |-> FALSE, duration |-> 0]

\* The success handler writing the end time whatever the duration.
VideoFetchOkAlwaysSetsEnd(info) ==
  /\ preview' = VideoPreview(info)
  /\ RangeEffects(startTime, secondsToHms(info.duration), VideoPreview(info),
                  isClip)
  /\ availableQualities' = SortQualities(info.qualities)
  /\ selectedQuality' = IF info.qualities # <<>> THEN "auto" ELSE selectedQuality

\* fetch_video_info resolves with info: the then and finally handlers.
VideoFetchOk(info) ==
  /\ preview' = VideoPreview(info)
  /\ RangeEffects(startTime,
                  IF info.duration > 0 THEN secondsToHms(info.duration)
                  ELSE endTime,
                  VideoPreview(info), isClip)
  /\ availableQualities' = SortQualities(info.qualities)
  /\ selectedQuality' = IF info.qualities # <<>> THEN "auto" ELSE selectedQuality

\* The catch handler with the selection reset as on a success.
VideoFetchFailedResetsQuality ==
  /\ preview' = Null
  /\ availableQualities' = <<>>
  /\ RangeEffects(startTime, endTime, Null, isClip)
  /\ selectedQuality' = "auto"

\* fetch_video_info rejects: the catch handler.
VideoFetchFailed ==
  /\ preview' = Null
  /\ availableQualities' = <<>>
  /\ RangeEffects(startTime, endTime, Null, isClip)
  /\ UNCHANGED selectedQuality

\* fetch_clip_info resolves with info.
ClipFetchOk(info) ==
  /\ preview' = ClipPreview(info)
  /\ RangeEffects(startTime, endTime, ClipPreview(info), isClip)
  /\ UNCHANGED <<availableQualities, selectedQuality>>

\* fetch_clip_info rejects.
ClipFetchFailed ==
  /\ preview' = Null
  /\ RangeEffects(startTime, endTime, Null, isClip)
  /\ UNCHANGED <<availableQualities, selectedQuality>>

FetchFrame ==
  UNCHANGED <<videoInput, outputDir, isDownloading, progress, toast,
              ffmpegReady, installingFfmpeg, timers, downloads, installs,
              checkPending, dialogs>>

\* The i-th outstanding fetch resolves.  The handlers write what it returned
\* whatever the reference is by then: they hold no check of the reference
\* the fetch was started for.
FetchResolve(i, d, qs) ==
  /\ i \in 1..Len(fetches)
  /\ fetches' = RemoveAt(fetches, i)
  /\ fetchingInfo' = FALSE
  /\ trigger' = "none"
  /\ mounted
  /\ UNCHANGED <<calc, mounted, mounts, listeners, credentialVars, carets>>
  /\ FetchFrame
  /\ IF fetches[i].ref.type = "video"
     THEN VideoFetchOk(VodInfo(fetches[i].ref.id, d, qs))
     ELSE ClipFetchOk(ClipInfo(fetches[i].ref.id))

\* The i-th outstanding fetch rejects.
FetchReject(i) ==
  /\ i \in 1..Len(fetches)
  /\ fetches' = RemoveAt(fetches, i)
  /\ fetchingInfo' = FALSE
  /\ trigger' = "none"
  /\ mounted
  /\ UNCHANGED <<calc, mounted, mounts, listeners, credentialVars, carets>>
  /\ FetchFrame
  /\ IF fetches[i].ref.type = "video" THEN VideoFetchFailed
     ELSE ClipFetchFailed

\* ------------------------------------------------------------------------
\* Time range, quality and output directory
\* ------------------------------------------------------------------------

EditFrame ==
  UNCHANGED <<videoInput, isDownloading, progress, toast, preview,
              fetchingInfo, ffmpegReady, installingFfmpeg, timers, fetches,
              downloads, installs, checkPending>>

\* onChange of the start field (shown for a non-clip, disabled while busy).
SetStartTime(val) ==
  /\ ~isClip /\ ~isBusy
  /\ Len(val) <= 8
  /\ RangeEffects(val, endTime, preview, isClip)
  /\ trigger' = "none"
  /\ mounted
  /\ UNCHANGED <<calc, mounted, mounts, listeners, credentialVars, carets>>
  /\ EditFrame
  /\ UNCHANGED <<outputDir, availableQualities, selectedQuality, dialogs>>

\* onChange of the end field.
SetEndTime(val) ==
  /\ ~isClip /\ ~isBusy
  /\ Len(val) <= 8
  /\ RangeEffects(startTime, val, preview, isClip)
  /\ trigger' = "none"
  /\ mounted
  /\ UNCHANGED <<calc, mounted, mounts, listeners, credentialVars, carets>>
  /\ EditFrame
  /\ UNCHANGED <<outputDir, availableQualities, selectedQuality, dialogs>>

\* The ids the quality buttons offer: "auto" and the stored qualities.
QualityButtons ==
  IF availableQualities = <<>> THEN {}
  ELSE {"auto"} \cup {availableQualities[i].id : i \in 1..Len(availableQualities)}

\* onClick of a quality button.
SelectQuality(id) ==
  /\ ~isClip /\ ~isBusy
  /\ id \in QualityButtons
  /\ selectedQuality' = id
  /\ trigger' = "none"
  /\ mounted
  /\ UNCHANGED <<calc, mounted, mounts, listeners, credentialVars, carets>>
  /\ EditFrame
  /\ UNCHANGED <<startTime, endTime, outputDir, availableQualities, dialogs>>

\* selectOutputDir up to its await: the directory dialog opens.
OpenDirDialog ==
  /\ ~isBusy
  /\ dialogs < MaxDialogs
  /\ dialogs' = dialogs + 1
  /\ trigger' = "none"
  /\ mounted
  /\ UNCHANGED <<calc, mounted, mounts, listeners, credentialVars, carets>>
  /\ EditFrame
  /\ UNCHANGED <<startTime, endTime, outputDir, availableQualities,
                 selectedQuality>>

\* selectOutputDir after its await: the dialog returns.
DirDialogResolve(selected) ==
  /\ dialogs > 0
  /\ dialogs' = dialogs - 1
  /\ outputDir' = IF selected # "" THEN selected ELSE outputDir
  /\ trigger' = "none"
  /\ mounted
  /\ UNCHANGED <<calc, mounted, mounts, listeners, credentialVars, carets>>
  /\ EditFrame
  /\ UNCHANGED <<startTime, endTime, availableQualities, selectedQuality>>

\* ------------------------------------------------------------------------
\* Dependency check and install
\* ------------------------------------------------------------------------

FfmpegFrame ==
  UNCHANGED <<videoInput, startTime, endTime, outputDir, isDownloading,
              preview, fetchingInfo, availableQualities, selectedQuality,
              timers, fetches, downloads, dialogs>>

\* check_ffmpeg resolves: then(setFfmpegReady).
CheckFfmpegResolve(ready) ==
  /\ checkPending
  /\ checkPending' = FALSE
  /\ ffmpegReady' = IF ready THEN "true" ELSE "false"
  /\ trigger' = "none"
  /\ mounted
  /\ UNCHANGED <<calc, mounted, mounts, listeners, credentialVars, carets>>
  /\ FfmpegFrame
  /\ UNCHANGED <<progress, toast, installingFfmpeg, installs>>

\* onClick of the install button of the banner, which is rendered when
\* needsFfmpeg && !installingFfmpeg: handleInstallFfmpeg up to its await.
ClickInstall ==
  /\ needsFfmpeg /\ ~installingFfmpeg
  /\ installingFfmpeg' = TRUE
  /\ toast' = NoToast
  /\ progress' = NoProgress
  /\ installs' = installs + 1
  /\ trigger' = "none"
  /\ mounted
  /\ UNCHANGED <<calc, mounted, mounts, listeners, credentialVars, carets>>
  /\ FfmpegFrame
  /\ UNCHANGED <<ffmpegReady, checkPending>>

\* install_ffmpeg resolves: the rest of the try block, then finally.
InstallResolve ==
  /\ installs > 0
  /\ installs' = installs - 1
  /\ ffmpegReady' = "true"
  /\ installingFfmpeg' = FALSE
  /\ trigger' = "none"
  /\ mounted
  /\ UNCHANGED <<calc, mounted, mounts, listeners, credentialVars, carets>>
  /\ FfmpegFrame
  /\ UNCHANGED <<progress, toast, checkPending>>

\* install_ffmpeg rejects: catch, then finally.
InstallReject(e) ==
  /\ installs > 0
  /\ installs' = installs - 1
  /\ toast' = Toast("error", MsgInstallFailed, e)
  /\ installingFfmpeg' = FALSE
  /\ trigger' = "none"
  /\ mounted
  /\ UNCHANGED <<calc, mounted, mounts, listeners, credentialVars, carets>>
  /\ FfmpegFrame
  /\ UNCHANGED <<progress, ffmpegReady, checkPending>>

\* ------------------------------------------------------------------------
\* Download session
\* ------------------------------------------------------------------------

None == <<>>

Some(x) == <<x>>

\* The call with the kinds confused: download_vod whatever the reference.
DownloadCallAlwaysVod ==
  [cmd |-> "download_vod", videoId |-> parsed.id,
   startTime |-> IF startTime # <<>> THEN startTime ELSE secondsToHms(0),
   endTime |-> endTime,
   outputDir |-> outputDir,
   qualityId |-> IF selectedQuality = "auto" THEN None
                 ELSE Some(selectedQuality)]

\* The call with "auto" resolved to the id of the best quality held.
DownloadCallResolvesAuto ==
  IF parsed.type = "clip"
  THEN [cmd |-> "download_clip_cmd", clipUid |-> parsed.id,
        outputDir |-> outputDir]
  ELSE [cmd |-> "download_vod", videoId |-> parsed.id,
        startTime |-> IF startTime # <<>> THEN startTime ELSE secondsToHms(0),
        endTime |-> endTime,
        outputDir |-> outputDir,
        qualityId |-> IF selectedQuality # "auto" THEN Some(selectedQuality)
                      ELSE IF availableQualities # <<>>
                      THEN Some(availableQualities[1].id)
                      ELSE None]

\* The arguments of the backend call handleDownload dispatches.
DownloadCall ==
  IF parsed.type = "clip"
  THEN [cmd |-> "download_clip_cmd", clipUid |-> parsed.id,
        outputDir |-> outputDir]
  ELSE [cmd |-> "download_vod", videoId |-> parsed.id,
        startTime |-> IF startTime # <<>> THEN startTime ELSE secondsToHms(0),
        endTime |-> endTime,
        outputDir |-> outputDir,
        qualityId |-> IF selectedQuality = "auto" THEN None
                      ELSE Some(selectedQuality)]

DownloadFrame ==
  UNCHANGED <<videoInput, startTime, endTime, outputDir, preview,
              fetchingInfo, availableQualities, selectedQuality, ffmpegReady,
              installingFfmpeg, timers, fetches, installs, checkPending,
              dialogs>>

\* handleDownload without the check of the output directory.
handleDownloadNoDirCheck ==
  IF parsed = Null
  THEN /\ toast' = Toast("error", MsgMissingId, NoDetail)
       /\ UNCHANGED <<isDownloading, progress, downloads>>
  ELSE /\ isDownloading' = TRUE
       /\ toast' = NoToast
       /\ progress' = NoProgress
       /\ downloads' = Append(downloads, DownloadCall)

\* handleDownload up to its await.
handleDownload ==
  IF parsed = Null
  THEN /\ toast' = Toast("error", MsgMissingId, NoDetail)
       /\ UNCHANGED <<isDownloading, progress, downloads>>
  ELSE IF outputDir = ""
  THEN /\ toast' = Toast("error", MsgMissingDir, NoDetail)
       /\ UNCHANGED <<isDownloading, progress, downloads>>
  ELSE /\ isDownloading' = TRUE
       /\ toast' = NoToast
       /\ progress' = NoProgress
       /\ downloads' = Append(downloads, DownloadCall)

\* onClick of the download button while it is enabled.
ClickDownload ==
  /\ ~DownloadDisabled
  /\ handleDownload
  /\ trigger' = "handled"
  /\ mounted
  /\ UNCHANGED <<calc, mounted, mounts, listeners, credentialVars, carets>>
  /\ DownloadFrame

\* A click on the download button while it is disabled: no handler runs.
ClickDownloadDisabled ==
  /\ DownloadDisabled
  /\ trigger' = "ignored"
  /\ mounted
  /\ UNCHANGED <<calc, mounted, mounts, listeners, credentialVars, carets>>
  /\ DownloadFrame
  /\ UNCHANGED <<isDownloading, toast, progress, downloads>>

\* The i-th outstanding download call resolves: the rest of the try block,
\* then finally.
DownloadResolve(i, outputPath) ==
  /\ i \in 1..Len(downloads)
  /\ downloads' = RemoveAt(downloads, i)
  /\ toast' = Toast("success", MsgDownloadDone, outputPath)
  /\ isDownloading' = FALSE
  /\ trigger' = "none"
  /\ mounted
  /\ UNCHANGED <<calc, mounted, mounts, listeners, credentialVars, carets>>
  /\ DownloadFrame
  /\ UNCHANGED progress

\* The rejection without the finally block: the busy flag stays set.
DownloadRejectKeepsBusy(i, e) ==
  /\ i \in 1..Len(downloads)
  /\ downloads' = RemoveAt(downloads, i)
  /\ toast' = Toast("error", MsgDownloadFailed, e)
  /\ trigger' = "none"
  /\ mounted
  /\ UNCHANGED <<calc, mounted, mounts, listeners, credentialVars, carets>>
  /\ DownloadFrame
  /\ UNCHANGED <<isDownloading, progress>>

\* The i-th outstanding download call rejects: catch, then finally.
DownloadReject(i, e) ==
  /\ i \in 1..Len(downloads)
  /\ downloads' = RemoveAt(downloads, i)
  /\ toast' = Toast("error", MsgDownloadFailed, e)
  /\ isDownloading' = FALSE
  /\ trigger' = "none"
  /\ mounted
  /\ UNCHANGED <<calc, mounted, mounts, listeners, credentialVars, carets>>
  /\ DownloadFrame
  /\ UNCHANGED progress

\* The listener merging the event into the held snapshot: the message of
\* the held snapshot is kept.
ProgressEventMerge(p) ==
  /\ progress' = IF progress = NoProgress THEN p
                 ELSE [p EXCEPT !.message = progress.message]
  /\ trigger' = "none"
  /\ mounted
  /\ UNCHANGED <<calc, mounted, mounts, listeners, credentialVars, carets>>
  /\ DownloadFrame
  /\ UNCHANGED <<isDownloading, toast, downloads>>

\* A download-progress event is delivered to the listener.
ProgressEvent(p) ==
  /\ progress' = p
  /\ trigger' = "none"
  /\ mounted
  /\ UNCHANGED <<calc, mounted, mounts, listeners, credentialVars, carets>>
  /\ DownloadFrame
  /\ UNCHANGED <<isDownloading, toast, downloads>>

\* The toast closes (its timer, or its close button): setToast(null).
ToastClose ==
  /\ toast # NoToast
  /\ toast' = NoToast
  /\ trigger' = "none"
  /\ mounted
  /\ UNCHANGED <<calc, mounted, mounts, listeners, credentialVars, carets>>
  /\ DownloadFrame
  /\ UNCHANGED <<isDownloading, progress, downloads>>

\* ------------------------------------------------------------------------
\* Time-field editor
\* ------------------------------------------------------------------------

\* parseTimeString(value): the three sub-fields, "00" for a missing or empty
\* one, each padded to two characters.
parseTimeString(value) ==
  LET parts == SplitColon(value)
      Part(k) == IF k <= Len(parts) /\ parts[k] # <<>> THEN parts[k]
                 ELSE <<"0", "0">>
  IN <<PadStart2(Part(1)), PadStart2(Part(2)), PadStart2(Part(3))>>

\* `${hh}:${mm}:${ss}`
JoinTime(hh, mm, ss) == hh \o <<":">> \o mm \o <<":">> \o ss

\* handleTimeInput with the sub-field chosen by cursorPos < 2 and < 5.
handleTimeInputHalfOpen(currentValue, key, cursorPos) ==
  IF ~IsDigit(key) THEN currentValue
  ELSE LET hh == parseTimeString(currentValue)[1]
           mm == parseTimeString(currentValue)[2]
           ss == parseTimeString(currentValue)[3]
       IN IF cursorPos < 2 THEN JoinTime(PadStart2(<<hh[2], key>>), mm, ss)
          ELSE IF cursorPos < 5
            THEN JoinTime(hh, PadStart2(<<mm[2], key>>), ss)
          ELSE JoinTime(hh, mm, PadStart2(<<ss[2], key>>))

\* handleTimeInput(currentValue, key, cursorPos)
handleTimeInput(currentValue, key, cursorPos) ==
  IF ~IsDigit(key) THEN currentValue
  ELSE LET hh == parseTimeString(currentValue)[1]
           mm == parseTimeString(currentValue)[2]
           ss == parseTimeString(currentValue)[3]
       IN IF cursorPos <= 2 THEN JoinTime(PadStart2(<<hh[2], key>>), mm, ss)
          ELSE IF cursorPos <= 5
            THEN JoinTime(hh, PadStart2(<<mm[2], key>>), ss)
          ELSE JoinTime(hh, mm, PadStart2(<<ss[2], key>>))

\* The caret moved one character on, colons not skipped.
NextPosByOne(cursorPos) == IF cursorPos >= 8 THEN 8 ELSE cursorPos + 1

\* nextPos of the digit branch of onKeyDown.
NextPos(cursorPos) ==
  CASE cursorPos = 0 -> 1
    [] cursorPos = 1 -> 3
    [] cursorPos = 2 -> 3
    [] cursorPos = 3 -> 4
    [] cursorPos = 4 -> 6
    [] cursorPos = 5 -> 6
    [] cursorPos = 6 -> 7
    [] cursorPos = 7 -> 8
    [] OTHER -> 8

\* The text a key of the end field edits: endTime || "00:00:00".
EndBuffer == IF endTime # <<>> THEN endTime ELSE secondsToHms(0)

\* onKeyDown of the start field ("start") or of the end field ("end") with a
\* digit key: the text is rewritten by handleTimeInput at the caret, and
\* the timer of the handler then moves the caret.  The fields are shown for
\* a non-clip and are disabled while busy.
KeyDigit(field, key) ==
  /\ ~isClip /\ ~isBusy
  /\ IsDigit(key)
  /\ IF field = "start"
     THEN RangeEffects(handleTimeInput(startTime, key, carets.start), endTime,
                       preview, isClip)
     ELSE RangeEffects(startTime,
                       handleTimeInput(EndBuffer, key, carets.end),
                       preview, isClip)
  /\ carets' = [carets EXCEPT ![field] = NextPos(@)]
  /\ trigger' = "none"
  /\ mounted
  /\ UNCHANGED <<calc, mounted, mounts, listeners, credentialVars>>
  /\ EditFrame
  /\ UNCHANGED <<outputDir, availableQualities, selectedQuality, dialogs>>

\* The text of a field, and the text a key or a click of the field works on:
\* startTime, and endTime || "00:00:00".
FieldText(field) == IF field = "start" THEN startTime ELSE endTime

FieldBuffer(field) == IF field = "start" THEN startTime ELSE EndBuffer

\* A Backspace that removes the character before the caret, as a text box
\* without the handler would.
BackspaceDeletes(value, cursorPos) ==
  IF cursorPos = 0 \/ cursorPos > Len(value) THEN value
  ELSE SubSeq(value, 1, cursorPos - 1)
         \o SubSeq(value, cursorPos + 1, Len(value))

\* The text the Backspace branch of onKeyDown writes: the sub-field at the
\* caret becomes "0" followed by its first character.
BackspaceText(value, cursorPos) ==
  LET hh == parseTimeString(value)[1]
      mm == parseTimeString(value)[2]
      ss == parseTimeString(value)[3]
  IN IF cursorPos <= 2 THEN JoinTime(<<"0", hh[1]>>, mm, ss)
     ELSE IF cursorPos <= 5 THEN JoinTime(hh, <<"0", mm[1]>>, ss)
     ELSE JoinTime(hh, mm, <<"0", ss[1]>>)

\* The text onClick writes: the sub-field at the click becomes "00".
ClickText(value, clickPos) ==
  LET hh == parseTimeString(value)[1]
      mm == parseTimeString(value)[2]
      ss == parseTimeString(value)[3]
  IN IF clickPos <= 2 THEN JoinTime(<<"0", "0">>, mm, ss)
     ELSE IF clickPos <= 5 THEN JoinTime(hh, <<"0", "0">>, ss)
     ELSE JoinTime(hh, mm, <<"0", "0">>)

\* cursorPos of onClick: the start of the sub-field at the click.
ClickPos(clickPos) ==
  IF clickPos <= 2 THEN 0 ELSE IF clickPos <= 5 THEN 3 ELSE 6

\* A field handler has written `text` into `field`; the clamps then run.
WriteField(field, text) ==
  IF field = "start" THEN RangeEffects(text, endTime, preview, isClip)
  ELSE RangeEffects(startTime, text, preview, isClip)

\* onKeyDown with Backspace: the text is rewritten, the caret is put back
\* where it was.
KeyBackspace(field) ==
  /\ ~isClip /\ ~isBusy
  /\ WriteField(field, BackspaceText(FieldBuffer(field), carets[field]))
  /\ trigger' = "none"
  /\ mounted
  /\ UNCHANGED <<calc, mounted, mounts, listeners, credentialVars, carets>>
  /\ EditFrame
  /\ UNCHANGED <<outputDir, availableQualities, selectedQuality, dialogs>>

\* onClick with the caret the click has put at clickPos, a position of the
\* text shown.
ClickField(field, clickPos) ==
  /\ ~isClip /\ ~isBusy
  /\ clickPos \in 0..Len(FieldBuffer(field))
  /\ WriteField(field, ClickText(FieldBuffer(field), clickPos))
  /\ carets' = [carets EXCEPT ![field] = ClickPos(clickPos)]
  /\ trigger' = "none"
  /\ mounted
  /\ UNCHANGED <<calc, mounted, mounts, listeners, credentialVars>>
  /\ EditFrame
  /\ UNCHANGED <<outputDir, availableQualities, selectedQuality, dialogs>>

\* onFocus: a text without a colon becomes "00:00:00".
FocusField(field) ==
  /\ ~isClip /\ ~isBusy
  /\ IF \E i \in 1..Len(FieldText(field)) : FieldText(field)[i] = ":"
     THEN UNCHANGED <<startTime, endTime>>
     ELSE WriteField(field, secondsToHms(0))
  /\ trigger' = "none"
  /\ mounted
  /\ UNCHANGED <<calc, mounted, mounts, listeners, credentialVars, carets>>
  /\ EditFrame
  /\ UNCHANGED <<outputDir, availableQualities, selectedQuality, dialogs>>

\* The caret of a field moved by the arrow keys, which no handler takes, to
\* a position of the text of the field.
MoveCaret(field, pos) ==
  /\ ~isClip /\ ~isBusy
  /\ pos \in 0..Len(FieldText(field))
  /\ pos # carets[field]
  /\ carets' = [carets EXCEPT ![field] = pos]
  /\ trigger' = "none"
  /\ mounted
  /\ UNCHANGED <<calc, mounted, mounts, listeners, credentialVars>>
  /\ EditFrame
  /\ UNCHANGED <<startTime, endTime, outputDir, availableQualities,
                 selectedQuality, dialogs>>

\* ------------------------------------------------------------------------
\* Credential session
\* ------------------------------------------------------------------------

\* What the user types into a cookie field.
TypedValues == {"", "typed"}

\* The payloads of the login-success event.
CapturedCredentials ==
  {[nid_aut |-> "captured", nid_ses |-> "captured"],
   [nid_aut |-> "captured2", nid_ses |-> "captured"]}

\* What load_credentials resolves with: null, or the stored pair.
LoadResults == {Null, [nid_aut |-> "stored", nid_ses |-> "stored"]}

\* A save request not completed yet: the authMethod its handler closed
\* over, and its phase.  "calling": save_credentials or open_login_webview
\* is outstanding; "open": open_login_webview has resolved, the capture is
\* awaited; "captured": the capture completed while open_login_webview was
\* still outstanding.
Save(method, phase) == [method |-> method, phase |-> phase]

\* Save request i moves to a phase, or is completed (phase "done").
SetPhase(i, phase) ==
  IF phase = "done" THEN RemoveAt(saves, i)
  ELSE [saves EXCEPT ![i].phase = phase]

CredentialFrame ==
  UNCHANGED <<videoInput, startTime, endTime, outputDir, isDownloading,
              progress, preview, fetchingInfo, availableQualities,
              selectedQuality, ffmpegReady, installingFfmpeg, timers, fetches,
              downloads, installs, checkPending, dialogs, calc, mounted,
              mounts, listeners, carets>>

\* onClick of the settings button: setShowSettings(true).
OpenSettings ==
  /\ ~showSettings
  /\ showSettings' = TRUE
  /\ trigger' = "none"
  /\ mounted
  /\ CredentialFrame
  /\ UNCHANGED <<toast, authMethod, nidAuth, nidSession, loginWebviewOpen,
                 saves, loadPending>>

\* onClose of the settings session (its cancel and close buttons).
CloseSettings ==
  /\ showSettings
  /\ showSettings' = FALSE
  /\ loginWebviewOpen' = FALSE
  /\ trigger' = "none"
  /\ mounted
  /\ CredentialFrame
  /\ UNCHANGED <<toast, authMethod, nidAuth, nidSession, saves, loadPending>>

\* onClick of a tab of the settings session: setAuthMethod(m).
SetAuthMethod(m) ==
  /\ showSettings
  /\ authMethod' = m
  /\ trigger' = "none"
  /\ mounted
  /\ CredentialFrame
  /\ UNCHANGED <<toast, showSettings, nidAuth, nidSession, loginWebviewOpen,
                 saves, loadPending>>

\* onChange of the first cookie field, shown on the cookie tab.
SetNidAuth(v) ==
  /\ showSettings /\ authMethod = "cookie"
  /\ nidAuth' = v
  /\ trigger' = "none"
  /\ mounted
  /\ CredentialFrame
  /\ UNCHANGED <<toast, showSettings, authMethod, nidSession,
                 loginWebviewOpen, saves, loadPending>>

\* onChange of the second cookie field, shown on the cookie tab.
SetNidSession(v) ==
  /\ showSettings /\ authMethod = "cookie"
  /\ nidSession' = v
  /\ trigger' = "none"
  /\ mounted
  /\ CredentialFrame
  /\ UNCHANGED <<toast, showSettings, authMethod, nidAuth, loginWebviewOpen,
                 saves, loadPending>>

\* onSave up to its await: open_login_webview on the login tab,
\* save_credentials on the cookie tab.  The button is never disabled.
ClickSave ==
  /\ showSettings
  /\ Len(saves) < MaxSaves
  /\ saves' = Append(saves, Save(authMethod, "calling"))
  /\ trigger' = "none"
  /\ mounted
  /\ CredentialFrame
  /\ UNCHANGED <<toast, showSettings, authMethod, nidAuth, nidSession,
                 loginWebviewOpen, loadPending>>

\* The call of save request i resolves: the rest of the try block.
SaveResolve(i) ==
  /\ i <= Len(saves)
  /\ saves[i].phase \in {"calling", "captured"}
  /\ IF saves[i].method = "login"
       THEN /\ saves' = SetPhase(i, IF saves[i].phase = "calling"
                                      THEN "open" ELSE "done")
            /\ loginWebviewOpen' = TRUE
            /\ toast' = Toast("success", MsgLoginOpened, NoDetail)
            /\ UNCHANGED showSettings
       ELSE /\ saves' = SetPhase(i, "done")
            /\ toast' = Toast("success", MsgSaved, NoDetail)
            /\ showSettings' = FALSE
            /\ UNCHANGED loginWebviewOpen
  /\ trigger' = "none"
  /\ mounted
  /\ CredentialFrame
  /\ UNCHANGED <<authMethod, nidAuth, nidSession, loadPending>>

\* The call of save request i rejects: the catch block.
SaveReject(i, e) ==
  /\ i <= Len(saves)
  /\ saves[i].phase = "calling"
  /\ saves' = SetPhase(i, "done")
  /\ toast' = Toast("error", MsgSaveFailed, e)
  /\ loginWebviewOpen' =
       IF saves[i].method = "login" THEN FALSE ELSE loginWebviewOpen
  /\ trigger' = "none"
  /\ mounted
  /\ CredentialFrame
  /\ UNCHANGED <<showSettings, authMethod, nidAuth, nidSession, loadPending>>

\* The login-success event of the capture of save request i is delivered,
\* before or after open_login_webview resolves: the listener.
LoginSuccess(i, creds) ==
  /\ i <= Len(saves)
  /\ saves[i].method = "login"
  /\ saves[i].phase \in {"calling", "open"}
  /\ saves' = SetPhase(i, IF saves[i].phase = "calling"
                            THEN "captured" ELSE "done")
  /\ nidAuth' = creds.nid_aut
  /\ nidSession' = creds.nid_ses
  /\ loginWebviewOpen' = FALSE
  /\ showSettings' = FALSE
  /\ toast' = Toast("success", MsgLoginDone, NoDetail)
  /\ trigger' = "none"
  /\ mounted
  /\ CredentialFrame
  /\ UNCHANGED <<authMethod, loadPending>>

\* The capture surface of save request i is closed with no capture: no
\* event follows, and no code of the controller runs.
CaptureAbandoned(i) ==
  /\ i <= Len(saves)
  /\ saves[i].method = "login"
  /\ saves[i].phase = "open"
  /\ saves' = SetPhase(i, "done")
  /\ trigger' = "none"
  /\ mounted
  /\ CredentialFrame
  /\ UNCHANGED <<toast, showSettings, authMethod, nidAuth, nidSession,
                 loginWebviewOpen, loadPending>>

\* load_credentials resolves: then(creds => if (creds) ...).
LoadCredentialsResolve(creds) ==
  /\ loadPending
  /\ loadPending' = FALSE
  /\ nidAuth' = IF creds # Null THEN creds.nid_aut ELSE nidAuth
  /\ nidSession' = IF creds # Null THEN creds.nid_ses ELSE nidSession
  /\ trigger' = "none"
  /\ mounted
  /\ CredentialFrame
  /\ UNCHANGED <<toast, showSettings, authMethod, loginWebviewOpen, saves>>

\* load_credentials rejects: catch(console.error).
LoadCredentialsReject ==
  /\ loadPending
  /\ loadPending' = FALSE
  /\ trigger' = "none"
  /\ mounted
  /\ CredentialFrame
  /\ UNCHANGED <<toast, showSettings, authMethod, nidAuth, nidSession,
                 loginWebviewOpen, saves>>

\* ------------------------------------------------------------------------
\* Lifetime of the controller and its event subscriptions
\* ------------------------------------------------------------------------

\* The state variables of a controller at their initial values, with no
\* timer, call or dialog of the controller outstanding.
FreshState ==
  /\ videoInput' = <<>>
  /\ startTime' = secondsToHms(0)
  /\ endTime' = <<>>
  /\ outputDir' = ""
  /\ isDownloading' = FALSE
  /\ progress' = NoProgress
  /\ toast' = NoToast
  /\ preview' = Null
  /\ fetchingInfo' = FALSE
  /\ availableQualities' = <<>>
  /\ selectedQuality' = "auto"
  /\ ffmpegReady' = "null"
  /\ installingFfmpeg' = FALSE
  /\ timers' = {}
  /\ fetches' = <<>>
  /\ downloads' = <<>>
  /\ installs' = 0
  /\ dialogs' = 0
  /\ trigger' = "none"
  /\ showSettings' = FALSE
  /\ authMethod' = "cookie"
  /\ nidAuth' = ""
  /\ nidSession' = ""
  /\ loginWebviewOpen' = FALSE
  /\ saves' = <<>>
  /\ carets' = [start |-> 0, end |-> 0]

\* Whether controller g has been torn down.
TornDown(g) == g < mounts \/ (g = mounts /\ ~mounted)

\* A teardown whose cleanups release only the subscriptions whose listen
\* call has resolved by then.
TeardownReleasesResolvedOnly ==
  /\ mounted
  /\ mounted' = FALSE
  /\ listeners' =
       [i \in 1..Len(listeners) |->
          IF listeners[i].owner = mounts /\ listeners[i].status = "registered"
          THEN [listeners[i] EXCEPT !.cleanup = TRUE]
          ELSE listeners[i]]
  /\ FreshState
  /\ checkPending' = FALSE
  /\ loadPending' = FALSE
  /\ UNCHANGED <<calc, mounts>>

\* The controller is torn down: the cleanups of its effects run.  Those of
\* the two subscription effects chain the release on the promise of the
\* listen call (unlisten.then((fn) => fn())), and that of the resolver
\* clears the timer.  The state of the controller is dropped, and what its
\* outstanding calls return no longer reaches a controller.
Teardown ==
  /\ mounted
  /\ mounted' = FALSE
  /\ listeners' =
       [i \in 1..Len(listeners) |->
          IF listeners[i].owner = mounts
          THEN [listeners[i] EXCEPT !.cleanup = TRUE]
          ELSE listeners[i]]
  /\ FreshState
  /\ checkPending' = FALSE
  /\ loadPending' = FALSE
  /\ UNCHANGED <<calc, mounts>>

\* The controller is mounted again: its state is initial, check_ffmpeg is
\* invoked and each subscription effect calls listen once.
Mount ==
  /\ ~mounted
  /\ mounts < MaxMounts
  /\ mounted' = TRUE
  /\ mounts' = mounts + 1
  /\ listeners' = listeners \o Subscriptions(mounts + 1)
  /\ FreshState
  /\ checkPending' = TRUE
  /\ loadPending' = TRUE
  /\ UNCHANGED calc

\* Nothing of the controller changes but the subscriptions.
ListenerFrame ==
  /\ trigger' = "none"
  /\ UNCHANGED <<videoInput, startTime, endTime, outputDir, isDownloading,
                 progress, toast, preview, fetchingInfo, availableQualities,
                 selectedQuality, ffmpegReady, installingFfmpeg, timers,
                 fetches, downloads, installs, checkPending, dialogs, calc,
                 mounted, mounts, credentialVars, carets>>

\* The i-th listen call resolves: the listener is registered, and the
\* promise holds the function that releases it.
ListenResolve(i) ==
  /\ i \in 1..Len(listeners)
  /\ listeners[i].status = "pending"
  /\ listeners' = [listeners EXCEPT ![i].status = "registered"]
  /\ ListenerFrame

\* The i-th listen call rejects: no listener is registered.
ListenReject(i) ==
  /\ i \in 1..Len(listeners)
  /\ listeners[i].status = "pending"
  /\ listeners' = [listeners EXCEPT ![i].status = "failed"]
  /\ ListenerFrame

\* The release chained by the cleanup runs for the i-th subscription, once
\* its listen call has resolved: fn().
Unlisten(i) ==
  /\ i \in 1..Len(listeners)
  /\ listeners[i].cleanup
  /\ listeners[i].status = "registered"
  /\ listeners' = [listeners EXCEPT ![i].status = "released"]
  /\ ListenerFrame

\* ------------------------------------------------------------------------
\* Specification
\* ------------------------------------------------------------------------

\* Smaller sets of inputs, for the specifications below.
Video1 == <<"1">>

Video2 == <<"2">>

ClipA == <<"a">>

GuardStarts == {secondsToHms(0), secondsToHms(60), secondsToHms(180)}

GuardEnds == {<<>>, secondsToHms(60), OneColonText}

\* Every step of a mounted controller.
Next ==
  \/ \E text \in Inputs : SetVideoInput(text)
  \/ \E ref \in timers : TimerFire(ref)
  \/ \E i \in 1..MaxInFlight, d \in Durations, qs \in QualityLists :
       FetchResolve(i, d, qs)
  \/ \E i \in 1..MaxInFlight : FetchReject(i)
  \/ \E val \in TimeTexts : SetStartTime(val)
  \/ \E val \in TimeTexts : SetEndTime(val)
  \/ \E id \in {"auto", Q480.id, Q1080.id} : SelectQuality(id)
  \/ OpenDirDialog
  \/ \E selected \in DialogResults : DirDialogResolve(selected)
  \/ \E ready \in BOOLEAN : CheckFfmpegResolve(ready)
  \/ ClickInstall
  \/ InstallResolve
  \/ \E e \in Failures : InstallReject(e)
  \/ ClickDownload
  \/ ClickDownloadDisabled
  \/ \E i \in 1..2, outputPath \in OutputPaths : DownloadResolve(i, outputPath)
  \/ \E i \in 1..2, e \in Failures : DownloadReject(i, e)
  \/ \E p \in Snapshots : ProgressEvent(p)
  \/ ToastClose

Spec == Init /\ [][Next]_vars

\* The metadata resolver: the reference changes, the debounce timer, the
\* fetches and the quality buttons.
NextResolver ==
  \/ \E text \in Inputs : SetVideoInput(text)
  \/ \E ref \in timers : TimerFire(ref)
  \/ \E i \in 1..MaxInFlight, d \in {0, 120}, qs \in QualityLists :
       FetchResolve(i, d, qs)
  \/ \E i \in 1..MaxInFlight : FetchReject(i)
  \/ \E id \in {"auto", Q480.id, Q1080.id} : SelectQuality(id)

SpecResolver == Init /\ [][NextResolver]_vars

\* The range validator: the resolver with one video and one clip, and the
\* edits of the start and end fields.
NextRange ==
  \/ \E text \in {<<>>, Video1, ClipA} : SetVideoInput(text)
  \/ \E ref \in timers : TimerFire(ref)
  \/ \E i \in 1..MaxInFlight, d \in Durations : FetchResolve(i, d, <<>>)
  \/ \E i \in 1..MaxInFlight : FetchReject(i)
  \/ \E val \in TimeTexts : SetStartTime(val)
  \/ \E val \in TimeTexts : SetEndTime(val)

SpecRange == Init /\ [][NextRange]_vars

\* The download session: the reference, the output directory, the
\* dependency check and install, the download and its notifications.
NextSession ==
  \/ \E text \in Inputs : SetVideoInput(text)
  \/ OpenDirDialog
  \/ \E selected \in DialogResults : DirDialogResolve(selected)
  \/ \E ready \in BOOLEAN : CheckFfmpegResolve(ready)
  \/ ClickInstall
  \/ InstallResolve
  \/ \E e \in Failures : InstallReject(e)
  \/ ClickDownload
  \/ ClickDownloadDisabled
  \/ \E i \in 1..2, outputPath \in OutputPaths : DownloadResolve(i, outputPath)
  \/ \E i \in 1..2, e \in Failures : DownloadReject(i, e)
  \/ \E p \in Snapshots : ProgressEvent(p)
  \/ ToastClose

SpecSession == Init /\ [][NextSession]_vars

\* The download trigger against the range validator: one video (of 120
\* seconds) and one clip, their metadata, the edits of the range, the output
\* directory and the download.
NextGuard ==
  \/ \E text \in {Video1, ClipA} : SetVideoInput(text)
  \/ \E ref \in timers : TimerFire(ref)
  \/ \E i \in 1..MaxInFlight : FetchResolve(i, 120, <<>>)
  \/ \E val \in GuardStarts : SetStartTime(val)
  \/ \E val \in GuardEnds : SetEndTime(val)
  \/ OpenDirDialog
  \/ DirDialogResolve("/out")
  \/ ClickDownload
  \/ ClickDownloadDisabled
  \/ \E i \in 1..2, outputPath \in OutputPaths : DownloadResolve(i, outputPath)

SpecGuard == Init /\ [][NextGuard]_vars

\* Durations of the videos of the metadata scenarios: none, two minutes,
\* and one hour, one minute and one second.
ScenarioDurations == {0, 120, 3661}

\* The metadata of one video and one clip against the end field: the
\* resolver, its results with each duration, and the edits of the end time.
NextMetadata ==
  \/ \E text \in {<<>>, Video1, ClipA} : SetVideoInput(text)
  \/ \E ref \in timers : TimerFire(ref)
  \/ \E i \in 1..MaxInFlight, d \in ScenarioDurations : FetchResolve(i, d, <<>>)
  \/ \E i \in 1..MaxInFlight : FetchReject(i)
  \/ \E val \in {<<>>, secondsToHms(60)} : SetEndTime(val)

SpecMetadata == Init /\ [][NextMetadata]_vars

\* Progress snapshots with every count up to the bound, total 0 included.
PercentSnapshots ==
  {[stage |-> "download", current |-> c, total |-> t, message |-> "segments"] :
     c \in 0..MaxTotal, t \in 0..MaxTotal}

\* The progress bridge with the percent it shows.
NextProgress == \E p \in PercentSnapshots : ProgressEvent(p)

SpecProgress == Init /\ [][NextProgress]_vars

\* The lifetime of the controller: teardowns and mounts, the listen calls,
\* the releases, and the progress events of a mounted controller.
NextLifetime ==
  \/ Teardown
  \/ Mount
  \/ \E i \in 1..(MaxMounts * Len(Events)) : ListenResolve(i)
  \/ \E i \in 1..(MaxMounts * Len(Events)) : ListenReject(i)
  \/ \E i \in 1..(MaxMounts * Len(Events)) : Unlisten(i)
  \/ \E p \in Snapshots : ProgressEvent(p)

SpecLifetime == Init /\ [][NextLifetime]_vars

\* The lifetime with its scheduling: the event system answers every listen
\* call, and a release chained on a resolved promise runs.
SpecLifetimeFair ==
  /\ SpecLifetime
  /\ \A i \in 1..(MaxMounts * Len(Events)) :
       /\ WF_vars(ListenResolve(i) \/ ListenReject(i))
       /\ WF_vars(Unlisten(i))

\* The resolver with its scheduling: a pending timer expires, and the
\* backend answers every fetch (without an answer the bound on outstanding
\* fetches would keep a pending timer from expiring).
SpecResolverFair ==
  /\ SpecResolver
  /\ WF_vars(\E ref \in timers : TimerFire(ref))
  /\ WF_vars(\E i \in 1..MaxInFlight : FetchReject(i))

\* The credential session: the settings session opens and closes, the tabs
\* and the cookie fields are edited, save requests are made and complete,
\* captures complete or are abandoned, and the stored pair is loaded.
NextCredentials ==
  \/ OpenSettings
  \/ CloseSettings
  \/ \E m \in {"cookie", "login"} : SetAuthMethod(m)
  \/ \E v \in TypedValues : SetNidAuth(v)
  \/ \E v \in TypedValues : SetNidSession(v)
  \/ ClickSave
  \/ \E i \in 1..MaxSaves : SaveResolve(i)
  \/ \E i \in 1..MaxSaves, e \in Failures : SaveReject(i, e)
  \/ \E i \in 1..MaxSaves, creds \in CapturedCredentials :
       LoginSuccess(i, creds)
  \/ \E i \in 1..MaxSaves : CaptureAbandoned(i)
  \/ \E creds \in LoadResults : LoadCredentialsResolve(creds)
  \/ LoadCredentialsReject

SpecCredentials == Init /\ [][NextCredentials]_vars

\* The backend calls and their failures: the metadata fetches of one video
\* entered, cleared and entered again, a quality chosen, an output directory
\* chosen, downloads, the dependency check and installs, and save requests
\* of both tabs; every call may be rejected.
NextFailures ==
  \/ \E text \in {<<>>, Video1} : SetVideoInput(text)
  \/ \E ref \in timers : TimerFire(ref)
  \/ \E i \in 1..MaxInFlight : FetchResolve(i, 120, <<Q480, Q1080>>)
  \/ \E i \in 1..MaxInFlight : FetchReject(i)
  \/ SelectQuality(Q480.id)
  \/ OpenDirDialog
  \/ DirDialogResolve("/out")
  \/ ClickDownload
  \/ \E e \in Failures : DownloadReject(1, e)
  \/ CheckFfmpegResolve(FALSE)
  \/ ClickInstall
  \/ \E e \in Failures : InstallReject(e)
  \/ OpenSettings
  \/ SetAuthMethod("login")
  \/ ClickSave
  \/ \E i \in 1..MaxSaves, e \in Failures : SaveReject(i, e)

SpecFailures == Init /\ [][NextFailures]_vars

\* The arguments of download_vod: one video of 120 seconds and its two
\* qualities, the quality chosen, the range edited (blank texts included),
\* the output directory and the download.
NextDispatch ==
  \/ SetVideoInput(Video1)
  \/ \E ref \in timers : TimerFire(ref)
  \/ \E i \in 1..MaxInFlight : FetchResolve(i, 120, <<Q480, Q1080>>)
  \/ \E id \in {"auto", Q480.id, Q1080.id} : SelectQuality(id)
  \/ \E val \in {<<>>, secondsToHms(60)} : SetStartTime(val)
  \/ \E val \in {<<>>, secondsToHms(90)} : SetEndTime(val)
  \/ OpenDirDialog
  \/ DirDialogResolve("/out")
  \/ ClickDownload
  \/ \E outputPath \in OutputPaths : DownloadResolve(1, outputPath)

SpecDispatch == Init /\ [][NextDispatch]_vars

\* The time-field editor: digit keys typed into the two fields, each from
\* its caret on, with no duration known.
EditorKeys == {"3", "5"}

NextEditor ==
  \E field \in {"start", "end"}, key \in EditorKeys : KeyDigit(field, key)

SpecEditor == Init /\ [][NextEditor]_vars

\* The time-field editor: digit keys, Backspace, clicks, focus and caret
\* moves on a field while the other field holds its first value, with the
\* metadata of one video arriving in between.
EditorFields == {"start", "end"}

OtherField(field) == IF field = "start" THEN "end" ELSE "start"

FieldUntouched(field) ==
  /\ FieldText(field) = (IF field = "start" THEN secondsToHms(0) ELSE <<>>)
  /\ carets[field] = 0

\* An action of the editor on `field`, the other field being untouched.
OnField(field) == FieldUntouched(OtherField(field))

NextBuffer ==
  \/ SetVideoInput(Video1)
  \/ \E ref \in timers : TimerFire(ref)
  \/ \E i \in 1..MaxInFlight : FetchResolve(i, 3661, <<>>)
  \/ \E field \in EditorFields, key \in EditorKeys :
       OnField(field) /\ KeyDigit(field, key)
  \/ \E field \in EditorFields : OnField(field) /\ KeyBackspace(field)
  \/ \E field \in EditorFields, clickPos \in 0..8 :
       OnField(field) /\ ClickField(field, clickPos)
  \/ \E field \in EditorFields : OnField(field) /\ FocusField(field)
  \/ \E field \in EditorFields, pos \in 0..8 :
       OnField(field) /\ MoveCaret(field, pos)

SpecBuffer == Init /\ [][NextBuffer]_vars

\* ------------------------------------------------------------------------
\* The helper functions on their own
\* ------------------------------------------------------------------------

\* Every variable of the controller is left alone.
ControllerFrame ==
  UNCHANGED <<videoInput, startTime, endTime, outputDir, isDownloading,
              progress, toast, preview, fetchingInfo, availableQualities,
              selectedQuality, ffmpegReady, installingFfmpeg, timers, fetches,
              downloads, installs, checkPending, dialogs, trigger, mounted,
              mounts, listeners, credentialVars, carets>>

\* Seconds counts given to the time codec: every count below 62, the
\* counts around the minute, the hour and the day, and counts whose hour
\* has three and four digits.
CodecSeconds ==
  (0..61) \cup {119, 600, 3599, 3600, 3601, 3661, 86399, 86400, 359999, 360000,
               360001, 363661, 3600000, 35999999}

\* secondsToHms of a number that may be NaN: String(NaN) is "NaN".
secondsToHmsOfNumber(n) ==
  IF n.nan
  THEN <<"N", "a", "N", ":", "N", "a", "N", ":", "N", "a", "N">>
  ELSE secondsToHms(n.v)

\* A seconds count is chosen.
InitCodec ==
  /\ InitState
  /\ calc \in {[stage |-> "seconds", sec |-> s] : s \in CodecSeconds}

\* secondsToHms(sec)
Encode ==
  /\ calc.stage = "seconds"
  /\ calc' = [stage |-> "text", sec |-> calc.sec, text |-> secondsToHms(calc.sec)]
  /\ ControllerFrame

\* hmsToSeconds(text)
Decode ==
  /\ calc.stage = "text"
  /\ calc' = [stage |-> "back", sec |-> calc.sec, text |-> calc.text,
              back |-> hmsToSeconds(calc.text)]
  /\ ControllerFrame

\* secondsToHms(back)
Reencode ==
  /\ calc.stage = "back"
  /\ calc' = [stage |-> "again", sec |-> calc.sec, text |-> calc.text,
              back |-> calc.back, again |-> secondsToHmsOfNumber(calc.back)]
  /\ ControllerFrame

NextCodec == Encode \/ Decode \/ Reencode

SpecCodec == InitCodec /\ [][NextCodec]_vars

\* The range the two clamp effects are given: start texts and end texts
\* (blank, below, at and above the durations, and one with a single colon)
\* and durations below, at and above 60 seconds.
ClampStarts ==
  {<<>>, OneColonText} \cup
  {secondsToHms(n) : n \in {0, 30, 59, 60, 100, 120, 180, 3661}}

ClampEnds ==
  {<<>>, OneColonText} \cup
  {secondsToHms(n) : n \in {0, 30, 60, 90, 120, 180, 3661}}

ClampDurations == {30, 59, 60, 61, 120, 3661}

\* The preview of a video of duration d.
PreviewOfDuration(d) == VideoPreview(VodInfo(Video1, d, <<>>))

\* A start text, an end text and a known duration are chosen.
InitClamp ==
  /\ InitState
  /\ calc \in {[stage |-> "written", start |-> st, end |-> et, duration |-> d,
                 rounds |-> 0] :
               st \in ClampStarts, et \in ClampEnds, d \in ClampDurations}

\* Whether the end clamp and the start clamp write, given the texts.
EndClampFires(et, pv, clip) ==
  /\ PreviewDuration(pv) # 0 /\ et # <<>> /\ ~clip
  /\ JsGt(hmsToSeconds(et), Num(PreviewDuration(pv)))

StartClampFires(st, pv, clip) ==
  /\ PreviewDuration(pv) # 0 /\ st # <<>> /\ ~clip
  /\ JsGe(hmsToSeconds(st), Num(PreviewDuration(pv)))

\* The two effects run after a render whose start, end or duration changed:
\* each reads the texts of that render.  A further round follows the
\* render their writes cause.
Clamp ==
  /\ calc.stage \in {"written", "clamped"}
  /\ calc.rounds < MaxRounds
  /\ calc' = [stage |-> "clamped",
              start |-> StartClamp(calc.start, PreviewOfDuration(calc.duration),
                                   FALSE),
              end |-> EndClamp(calc.end, PreviewOfDuration(calc.duration),
                               FALSE),
              duration |-> calc.duration,
              rounds |-> calc.rounds + 1,
              from |-> calc]
  /\ ControllerFrame

NextClamp == Clamp

SpecClamp == InitClamp /\ [][NextClamp]_vars

\* The texts a digit key is pressed on: well formed ones, the blank one, one
\* with a sub-field of one character and one with a single colon.
EditorBuffers ==
  {secondsToHms(n) : n \in {0, 59, 3661, 45296, 86399}} \cup
  {<<>>, <<"5", ":", "0", "0", ":", "0", "0">>, OneColonText}

\* A text, a digit key and a caret position are chosen.
InitTimeInput ==
  /\ InitState
  /\ calc \in {[stage |-> "key", value |-> v, key |-> Digits[k],
                 cursorPos |-> p] :
               v \in EditorBuffers, k \in 1..10, p \in 0..8}

\* handleTimeInput(value, key, cursorPos)
TimeInput ==
  /\ calc.stage = "key"
  /\ calc' = [stage |-> "edited", value |-> calc.value, key |-> calc.key,
              cursorPos |-> calc.cursorPos,
              newValue |-> handleTimeInput(calc.value, calc.key,
                                           calc.cursorPos)]
  /\ ControllerFrame

NextTimeInput == TimeInput

SpecTimeInput == InitTimeInput /\ [][NextTimeInput]_vars

\* The segments of the texts given to hmsToSeconds: empty, and digits of
\* one, two and three characters.
DecoderSegments ==
  {<<>>, <<"0">>, <<"5">>, <<"0", "7">>, <<"5", "9">>, <<"1", "2", "3">>}

\* Texts of one, two and three segments of digits.
DecoderTexts ==
  DecoderSegments
    \cup {a \o <<":">> \o b : a, b \in DecoderSegments}
    \cup {a \o <<":">> \o b \o <<":">> \o c : a, b, c \in DecoderSegments}

\* A text is chosen.
InitDecoder ==
  /\ InitState
  /\ calc \in {[stage |-> "hms", text |-> t] : t \in DecoderTexts}

\* hmsToSeconds(text)
DecodeText ==
  /\ calc.stage = "hms"
  /\ calc' = [stage |-> "seconds", text |-> calc.text,
              sec |-> hmsToSeconds(calc.text)]
  /\ ControllerFrame

NextDecoder == DecodeText

SpecDecoder == InitDecoder /\ [][NextDecoder]_vars

\* What stands between the blanks of a reference text: nothing, digits,
\* letters and digits, a text with another character, the two URLs with and
\* without an id, and texts that hold both URLs.
ParserBodies ==
  {<<>>,
   <<"1", "2">>,
   <<"a", "1">>,
   <<"A", "b">>,
   <<"a", "-", "b">>,
   <<"1", ".", "2">>,
   ClipUrl,
   ClipUrl \o <<"/">>,
   ClipUrl \o <<"a", "B", "3">>,
   ClipUrl \o <<"4", "5">>,
   ClipUrl \o <<"a", "-", "b">>,
   VideoUrl,
   VideoUrl \o <<"x">>,
   VideoUrl \o <<"7", "8">>,
   VideoUrl \o <<"7", "x">>,
   ClipUrl \o <<"c", "/">> \o VideoUrl \o <<"9">>,
   VideoUrl \o <<"9", "/">> \o ClipUrl \o <<"c">>,
   VideoUrl \o <<"x", "/">> \o ClipUrl \o <<"c">>,
   ClipUrl \o <<"/">> \o VideoUrl \o <<"9">>}

\* What stands before and after: nothing, blanks, a scheme, a path, a query.
ParserPrefixes == {<<>>, <<" ">>, <<"h", "t", "t", "p", "s", ":", "/", "/">>}

ParserSuffixes == {<<>>, <<" ", " ">>, <<"/", "z">>, <<"?", "t", "=", "1">>}

ParserTexts ==
  {pre \o body \o post :
     pre \in ParserPrefixes, body \in ParserBodies, post \in ParserSuffixes}

\* A text is chosen.
InitParser ==
  /\ InitState
  /\ calc \in {[stage |-> "input", text |-> t] : t \in ParserTexts}

\* parseInput(input)
Parse ==
  /\ calc.stage = "input"
  /\ calc' = [stage |-> "parsed", text |-> calc.text,
              ref |-> parseInput(calc.text)]
  /\ ControllerFrame

NextParser == Parse

SpecParser == InitParser /\ [][NextParser]_vars

\* ------------------------------------------------------------------------
\* Properties
\* ------------------------------------------------------------------------

\* C1. Stale-result property: when a fetch started for a reference resolves
\* or rejects after the parsed reference has changed to another value or to
\* none, its result is discarded: preview, end time, quality set and quality
\* selection are not written.
C1_StaleResultDiscarded ==
  [][\A i \in 1..Len(fetches) :
       (fetches' = RemoveAt(fetches, i) /\ fetches[i].ref # parsed)
         => UNCHANGED <<preview, endTime, availableQualities, selectedQuality>>]_vars

\* C2. Debounce property: at most one timer is pending and it is for the
\* current reference (a change of the reference cancels the timer of the
\* superseded value); a fetch is started only by the pending timer, for the
\* current reference, and leaves no timer behind; a timer is armed only by a
\* change of the reference; and a pending timer ultimately expires or is
\* cancelled.  So a burst of changes within the quiet period starts exactly
\* one fetch, for the final reference, and none for a superseded one.
C2_Debounce ==
  /\ [](timers \subseteq ({parsed} \ {Null}))
  /\ [][Len(fetches') > Len(fetches)
          => /\ parsed # Null
             /\ timers = {parsed}
             /\ fetches' = Append(fetches, [ref |-> parsed])
             /\ timers' = {}]_vars
  /\ [][(timers' # timers /\ timers' # {})
          => (parsed' # parsed /\ timers' = {parsed'})]_vars
  /\ ((timers # {}) ~> (timers = {}))

\* C2 witness: after the reference went from video 1 to video 2 the one
\* fetch outstanding is for video 2, and no timer is pending.
C2_Witness ==
  /\ parsed = [type |-> "video", id |-> Video2]
  /\ fetches = <<[ref |-> parsed]>>
  /\ timers = {}
  /\ preview.type = "preview" /\ preview.title = <<"title", Video1>>

\* The download call dispatched by a step, when the step dispatches one.
Dispatches == Len(downloads') = Len(downloads) + 1

Dispatched == downloads'[Len(downloads')]

\* C3. Single-flight invariant: at most one download call is outstanding,
\* and while busy no step dispatches a download call; a click on the
\* download button while busy changes nothing.
C3_SingleFlight ==
  /\ [](Len(downloads) <= 1)
  /\ [][isBusy => ~Dispatches]_vars
  /\ [][(isBusy /\ trigger' # "none")
          => (trigger' = "ignored"
              /\ UNCHANGED <<downloads, isDownloading, toast, progress>>)]_vars

\* C3 witness: a click on the download button was dropped while the one
\* download call was outstanding.
C3_Witness ==
  /\ trigger = "ignored"
  /\ isDownloading
  /\ Len(downloads) = 1

\* The seconds a well-formed range needs: a number, not NaN.
IsSeconds(n) == ~n.nan

\* C4. Range invariant: for a video reference with known duration, either
\* the blocking range error is reported, or 0 <= start < effectiveEnd <=
\* duration.
C4_RangeInvariant ==
  (parsed.type = "video" /\ PreviewDuration(preview) > 0)
    => \/ timeRangeError
       \/ LET start == hmsToSeconds(startTime)
              end == EffectiveEnd(endTime, preview)
          IN /\ IsSeconds(start) /\ IsSeconds(end)
             /\ 0 <= start.v
             /\ start.v < end.v
             /\ end.v <= PreviewDuration(preview)

\* C5. A download-video call is dispatched only when the dependency has been
\* reported ready.
C5_VideoNeedsReadyFfmpeg ==
  [][(Dispatches /\ Dispatched.cmd = "download_vod")
       => ffmpegReady = "true"]_vars

\* C6. While the blocking range error is present no download is dispatched,
\* and no download-video call is dispatched with a start time greater than
\* or equal to the effective end time for the known duration.
C6_RangeErrorBlocksDownload ==
  /\ [][timeRangeError => ~Dispatches]_vars
  /\ [][(/\ Dispatches
         /\ Dispatched.cmd = "download_vod"
         /\ PreviewDuration(preview) > 0)
          => ~JsGe(hmsToSeconds(Dispatched.startTime),
                   EffectiveEnd(Dispatched.endTime, preview))]_vars

\* C6 witness: a click on the download button was dropped for the range
\* error alone (start 00:01:00, end 00:01:00, duration 120).
C6_Witness ==
  /\ trigger = "ignored"
  /\ timeRangeError
  /\ ~isBusy /\ ~needsFfmpeg
  /\ outputDir # ""
  /\ startTime = secondsToHms(60) /\ endTime = secondsToHms(60)

\* C7. An install_ffmpeg call and a download call are never both
\* outstanding.
C7_InstallExcludesDownload == ~(installs > 0 /\ Len(downloads) > 0)

MissingIdToast == Toast("error", MsgMissingId, NoDetail)

MissingDirToast == Toast("error", MsgMissingDir, NoDetail)

\* C8. A download trigger with no parsed reference, or with a reference but
\* no output directory, reports the error notification (missing identifier,
\* respectively missing destination), dispatches no backend call and leaves
\* the busy flag and the progress snapshot unchanged.
C8_MissingInputRejected ==
  /\ [][(trigger' = "handled" /\ parsed = Null)
          => (toast' = MissingIdToast
              /\ UNCHANGED <<downloads, isDownloading, progress>>)]_vars
  /\ [][(trigger' = "handled" /\ parsed # Null /\ outputDir = "")
          => (toast' = MissingDirToast
              /\ UNCHANGED <<downloads, isDownloading, progress>>)]_vars

\* C8 witness: the trigger ran for a reference with no output directory
\* while a progress snapshot was held; the snapshot is still held.
C8_Witness ==
  /\ trigger = "handled"
  /\ parsed # Null /\ outputDir = ""
  /\ toast = MissingDirToast
  /\ progress # NoProgress
  /\ downloads = <<>> /\ ~isDownloading

\* C9. An accepted download start clears the notification and the progress
\* snapshot, sets the busy flag and dispatches exactly one backend call, of
\* the kind of the reference: download-clip with the id and the destination
\* only for a clip, download-video for a video.
C9_StartDispatchesOneCall ==
  [][(trigger' = "handled" /\ parsed # Null /\ outputDir # "")
       => /\ toast' = NoToast
          /\ progress' = NoProgress
          /\ isDownloading'
          /\ Dispatches
          /\ SubSeq(downloads', 1, Len(downloads)) = downloads
          /\ Dispatched.outputDir = outputDir
          /\ IF parsed.type = "clip"
             THEN /\ Dispatched.cmd = "download_clip_cmd"
                  /\ DOMAIN Dispatched = {"cmd", "clipUid", "outputDir"}
                  /\ Dispatched.clipUid = parsed.id
             ELSE /\ Dispatched.cmd = "download_vod"
                  /\ Dispatched.videoId = parsed.id]_vars

\* C9 witness: the trigger was accepted for a clip, and the one call
\* outstanding is download-clip.
C9_Witness ==
  /\ trigger = "handled"
  /\ isClip
  /\ Len(downloads) = 1 /\ downloads[1].cmd = "download_clip_cmd"
  /\ toast = NoToast /\ progress = NoProgress

\* The notifications that end a download, and the one that ends an install.
DownloadEndToasts ==
  {Toast("success", MsgDownloadDone, path) : path \in OutputPaths}
    \cup {Toast("error", MsgDownloadFailed, e) : e \in Failures}

InstallEndToasts == {Toast("error", MsgInstallFailed, e) : e \in Failures}

\* C10 as stated: the completion of a download or of an install clears the
\* busy flag of the operation and surfaces a terminal notification.
C10_CompletionNotifies ==
  /\ [][Len(downloads') < Len(downloads)
          => (~isDownloading' /\ toast' \in DownloadEndToasts)]_vars
  /\ [][installs' < installs
          => (~installingFfmpeg' /\ toast' \in InstallEndToasts)]_vars

\* C10 amended: a busy flag is set exactly while the call of its operation
\* is outstanding; the completion of a download clears its flag and
\* surfaces one terminal notification (success with the output path, or
\* error with the failure detail); the completion of an install clears its
\* flag and either surfaces the error notification (failure) or marks the
\* dependency ready and leaves the notification as it was (success).
C10_CompletionReturnsToIdle ==
  /\ [](isDownloading <=> Len(downloads) > 0)
  /\ [](installingFfmpeg <=> installs > 0)
  /\ [][Len(downloads') < Len(downloads)
          => (~isDownloading' /\ toast' \in DownloadEndToasts)]_vars
  /\ [][installs' < installs
          => /\ ~installingFfmpeg'
             /\ \/ toast' \in InstallEndToasts /\ ffmpegReady' = ffmpegReady
                \/ toast' = toast /\ ffmpegReady' = "true"]_vars

\* C10 witness: a download was rejected; the error notification is shown
\* and the session is idle again.
C10_Witness ==
  /\ toast \in {Toast("error", MsgDownloadFailed, e) : e \in Failures}
  /\ ~isDownloading /\ downloads = <<>>
  /\ ~installingFfmpeg /\ installs = 0

\* C11. For every non-negative seconds count s, encoding s, decoding the
\* text and encoding the result again gives the text of the first encoding,
\* also when the hour of s takes more than two digits.
C11_CodecRoundTrip ==
  calc.stage = "again" => calc.again = calc.text

\* C11 witness: the round trip of 360000 seconds, whose text is "100:00:00".
C11_Witness ==
  /\ calc.stage = "again"
  /\ calc.sec = 360000
  /\ calc.text = <<"1", "0", "0", ":", "0", "0", ":", "0", "0">>
  /\ calc.back = Num(360000)
  /\ calc.again = calc.text

\* Whether a URL with a clip id (.../clips/<id>, the id not empty) stands
\* somewhere in the text t, and the id of the first one.
HasClipUrl(t) ==
  \E i \in 1..Len(t) :
    LitAt(t, ClipUrl, i) /\ ClipRun(t, i + Len(ClipUrl)) # <<>>

FirstClipId(t) ==
  ClipRun(t, Len(ClipUrl)
               + Least({i \in 1..Len(t) :
                          LitAt(t, ClipUrl, i)
                            /\ ClipRun(t, i + Len(ClipUrl)) # <<>>}))

\* Whether a URL with a video number (.../video/<digits>) stands somewhere
\* in the text t, and the digits of the first one.
HasVideoUrl(t) ==
  \E i \in 1..Len(t) :
    LitAt(t, VideoUrl, i) /\ DigitRun(t, i + Len(VideoUrl)) # <<>>

FirstVideoDigits(t) ==
  DigitRun(t, Len(VideoUrl)
                + Least({i \in 1..Len(t) :
                           LitAt(t, VideoUrl, i)
                             /\ DigitRun(t, i + Len(VideoUrl)) # <<>>}))

AllDigits(t) == \A i \in 1..Len(t) : IsDigit(t[i])

AllAlnum(t) == \A i \in 1..Len(t) : IsAlnum(t[i])

\* What the rules of the reference parser, tried in order, give for a text.
RuleResult(text) ==
  LET t == Trim(text)
  IN CASE t = <<>> -> Null
       [] t # <<>> /\ HasClipUrl(t) -> [type |-> "clip", id |-> FirstClipId(t)]
       [] t # <<>> /\ ~HasClipUrl(t) /\ HasVideoUrl(t) ->
            [type |-> "video", id |-> FirstVideoDigits(t)]
       [] t # <<>> /\ ~HasClipUrl(t) /\ ~HasVideoUrl(t) /\ AllDigits(t) ->
            [type |-> "video", id |-> t]
       [] t # <<>> /\ ~HasClipUrl(t) /\ ~HasVideoUrl(t) /\ ~AllDigits(t)
            /\ AllAlnum(t) -> [type |-> "clip", id |-> t]
       [] OTHER -> Null

\* C12. The reference parser gives a result for every text, the result of
\* the first rule that matches: none for a blank text; Clip(id) for a text
\* with a clip URL, also when it holds a video URL; Video(digits) for a text
\* with a video URL; Video for digits only; Clip for letters and digits;
\* none otherwise.  The id of a reference is never empty.
C12_ParserRules ==
  calc.stage = "parsed" =>
    /\ calc.ref = RuleResult(calc.text)
    /\ calc.ref.type \in {"null", "video", "clip"}
    /\ calc.ref # Null => calc.ref.id # <<>>
    /\ (calc.ref.type = "video" => AllDigits(calc.ref.id))

\* C12 witness: a text with a video URL before a clip URL is parsed to the
\* clip.
C12_Witness ==
  /\ calc.stage = "parsed"
  /\ calc.text = VideoUrl \o <<"9", "/">> \o ClipUrl \o <<"c">>
  /\ calc.ref = [type |-> "clip", id |-> <<"c">>]

\* A step in which a fetch started for the current reference completes.
CurrentFetchCompletes ==
  \E i \in 1..Len(fetches) :
    fetches' = RemoveAt(fetches, i) /\ fetches[i].ref = parsed

\* C13. When the fetch of a video's metadata succeeds for the current
\* reference, the preview holds the title, channel, thumbnail and duration
\* returned, and the end time is the text of the duration when the duration
\* is positive ("01:01:01" for 3661) and is left as it was when it is 0.
C13_VideoSuccessFillsEnd ==
  [][(CurrentFetchCompletes /\ parsed.type = "video" /\ preview' # Null)
       => /\ preview'.type = "preview"
          /\ preview'.title = <<"title", parsed.id>>
          /\ preview'.channel = <<"channel", parsed.id>>
          /\ preview'.thumbnail = <<"thumbnail", parsed.id>>
          /\ preview'.hasDuration
          /\ preview'.duration \in ScenarioDurations
          /\ preview'.duration > 0 => endTime' = secondsToHms(preview'.duration)
          /\ preview'.duration = 3661
               => endTime' = <<"0", "1", ":", "0", "1", ":", "0", "1">>
          /\ preview'.duration = 0 => endTime' = endTime]_vars

\* C13 witness: the metadata of video 1 has arrived with duration 3661, and
\* the end time reads "01:01:01".
C13_Witness ==
  /\ parsed = [type |-> "video", id |-> Video1]
  /\ fetches = <<>>
  /\ preview # Null /\ preview.hasDuration /\ preview.duration = 3661
  /\ preview.title = <<"title", Video1>>
  /\ endTime = <<"0", "1", ":", "0", "1", ":", "0", "1">>

\* Whether the list qs is in the order of non-increasing bandwidth.
IsDescending(qs) ==
  \A i \in 1..(Len(qs) - 1) : qs[i].bandwidth >= qs[i + 1].bandwidth

\* Whether the lists a and b hold the same qualities, each as many times.
SameQualities(a, b) ==
  /\ Len(a) = Len(b)
  /\ \A q \in {a[i] : i \in 1..Len(a)} \cup {b[i] : i \in 1..Len(b)} :
       Cardinality({i \in 1..Len(a) : a[i] = q})
         = Cardinality({i \in 1..Len(b) : b[i] = q})

\* C14. After the result of a successful fetch of a video's metadata is
\* applied, whatever quality set it returned (an empty one too), the quality
\* selection is "auto" and the stored quality set is the returned set in the
\* order of non-increasing bandwidth.
C14_VideoSuccessResetsQuality ==
  [][\A i \in 1..Len(fetches) :
       (/\ fetches' = RemoveAt(fetches, i)
        /\ fetches[i].ref.type = "video"
        /\ preview' # Null)
         => /\ selectedQuality' = "auto"
            /\ IsDescending(availableQualities')
            /\ \E qs \in QualityLists :
                 SameQualities(availableQualities', qs)]_vars

\* C15. After a metadata fetch has failed, of a video or of a clip, the
\* preview and the quality set are empty and the fetching flag is cleared.
C15_FailureClearsMetadata ==
  [][\A i \in 1..Len(fetches) :
       (fetches' = RemoveAt(fetches, i) /\ preview' = Null)
         => (availableQualities' = <<>> /\ ~fetchingInfo')]_vars

\* C16. After the result of a successful fetch of a clip's metadata is
\* applied, the preview holds the title, channel and thumbnail with no
\* duration, and the quality set is empty, also when a video with a
\* non-empty quality set was resolved before.
C16_ClipSuccessHoldsNoQualities ==
  [][\A i \in 1..Len(fetches) :
       (/\ fetches' = RemoveAt(fetches, i)
        /\ fetches[i].ref.type = "clip"
        /\ preview' # Null)
         => /\ preview'.title = <<"title", fetches[i].ref.id>>
            /\ preview'.channel = <<"channel", fetches[i].ref.id>>
            /\ preview'.thumbnail = <<"thumbnail", fetches[i].ref.id>>
            /\ ~preview'.hasDuration
            /\ availableQualities' = <<>>]_vars

\* C17. The fetching flag is set exactly while a metadata fetch is
\* outstanding: the completion of one fetch does not clear it while another
\* is outstanding.
C17_FetchingFlagTracksFetches ==
  fetchingInfo <=> (Len(fetches) > 0)

\* A step that starts a download or an install.
StartsOperation ==
  \/ ~isDownloading /\ isDownloading'
  \/ ~installingFfmpeg /\ installingFfmpeg'

\* C18. Each progress event replaces the held snapshot whole: after the
\* delivery of an event the held snapshot is that event, with its four
\* fields; nothing but a delivery writes a snapshot, and nothing but the
\* start of a download or of an install drops it.  So after any sequence of
\* events since the last start the held snapshot is the last one delivered.
C18_SnapshotReplaced ==
  /\ [][\A p \in Snapshots : ProgressEvent(p) => progress' = p]_vars
  /\ [][progress' # progress
          => \/ progress' \in Snapshots /\ ~StartsOperation
             \/ progress' = NoProgress /\ StartsOperation]_vars

\* C18 witness: during a download the download snapshot is held, whose
\* four fields all differ from those of the other snapshot.
C18_Witness ==
  /\ isDownloading /\ Len(downloads) = 1
  /\ progress = [stage |-> "download", current |-> 1, total |-> 2,
                 message |-> "half"]

Registered(i) == i <= Len(listeners) /\ listeners[i].status = "registered"

\* Whether the i-th subscription is one of a controller torn down.
Stale(i) == i <= Len(listeners) /\ TornDown(listeners[i].owner)

\* C20. Each mount acquires one subscription per event, and they are
\* released on teardown: a subscription is released only once its
\* controller is torn down, a subscription no longer registered is never
\* registered again, and every subscription of a controller torn down is
\* ultimately not registered, whatever mounts and teardowns follow: none
\* stays registered across a remount.
C20_SubscriptionsReleased ==
  /\ [](\A g \in 1..mounts, k \in 1..Len(Events) :
          Cardinality({i \in 1..Len(listeners) :
                         listeners[i].owner = g /\ listeners[i].event = Events[k]})
            = 1)
  /\ [](Len(listeners) = mounts * Len(Events))
  /\ [](\A i \in 1..Len(listeners) :
          listeners[i].status = "released" => TornDown(listeners[i].owner))
  /\ [][\A i \in 1..Len(listeners) :
          listeners[i].status \in {"released", "failed"}
            => listeners'[i].status = listeners[i].status]_vars
  /\ \A i \in 1..(MaxMounts * Len(Events)) :
       Stale(i) ~> [](~Registered(i))

\* C20 witness: the second controller is mounted with its progress
\* subscription registered, and both subscriptions of the first controller
\* are released.
C20_Witness ==
  /\ mounted /\ mounts = 2
  /\ listeners[1].owner = 1 /\ listeners[1].status = "released"
  /\ listeners[2].owner = 1 /\ listeners[2].status = "released"
  /\ listeners[4].owner = 2 /\ listeners[4].event = "download-progress"
  /\ listeners[4].status = "registered"

\* ------------------------------------------------------------------------
\* C21
\* ------------------------------------------------------------------------

\* A capture surface is opened in this step, its capture still to come.
CaptureAwaited ==
  \E i \in 1..Len(saves) :
    /\ saves[i] = Save("login", "calling")
    /\ saves' = SetPhase(i, "open")

\* C21. When the login-success event is delivered, the credential mirror
\* holds a pair the event carries, the awaiting-capture indicator is false,
\* the settings session is closed and the success notification is shown;
\* and the indicator becomes true only when a capture surface has been
\* opened whose capture has not completed, whichever of the event and the
\* response of open_login_webview comes first.
C21_CaptureCompletion ==
  /\ [][\A i \in 1..MaxSaves, creds \in CapturedCredentials :
         LoginSuccess(i, creds)
           => /\ nidAuth' = creds.nid_aut /\ nidSession' = creds.nid_ses
              /\ ~loginWebviewOpen'
              /\ ~showSettings'
              /\ toast' = Toast("success", MsgLoginDone, NoDetail)]_vars
  /\ [][(~loginWebviewOpen /\ loginWebviewOpen') => CaptureAwaited]_vars

\* ------------------------------------------------------------------------
\* C22
\* ------------------------------------------------------------------------

\* What no failure of a backend call writes: the reference, the time range
\* and the carets of its fields, the quality selection, the output
\* directory, the credential mirror, the settings session, the progress
\* snapshot, the dependency status and the debounce timer.
FailureKeeps ==
  UNCHANGED <<videoInput, startTime, endTime, carets, selectedQuality,
              outputDir, nidAuth, nidSession, showSettings, authMethod,
              progress, ffmpegReady, timers>>

\* What the failure of a download, of an install or of a save request
\* leaves alone besides: the metadata and the flags of the other operations.
DownloadFailureKeeps ==
  UNCHANGED <<preview, availableQualities, fetchingInfo, installingFfmpeg,
              loginWebviewOpen>>

InstallFailureKeeps ==
  UNCHANGED <<preview, availableQualities, fetchingInfo, isDownloading,
              loginWebviewOpen>>

SaveFailureKeeps(i) ==
  /\ UNCHANGED <<preview, availableQualities, fetchingInfo, isDownloading,
                 installingFfmpeg>>
  /\ saves[i].method = "cookie" => UNCHANGED loginWebviewOpen

ZeroText == <<"0", "0", ":", "0", "0", ":", "0", "0">>

\* C23. In every download_vod call the quality argument is unset exactly
\* when the selection is "auto" and is otherwise the selected id; the start
\* argument is the start text, or "00:00:00" when the start text is blank;
\* the end argument is the end text, the empty string when no end is set.
C23_VodArguments ==
  [][(Dispatches /\ Dispatched.cmd = "download_vod")
       => /\ (Dispatched.qualityId = None) <=> (selectedQuality = "auto")
          /\ selectedQuality # "auto"
               => Dispatched.qualityId = Some(selectedQuality)
          /\ Dispatched.startTime =
               IF startTime = <<>> THEN ZeroText ELSE startTime
          /\ Dispatched.endTime = endTime]_vars

\* C23 witness: a download_vod call is outstanding that was dispatched with
\* a concrete quality chosen and with both texts of the range blank.
C23_Witness ==
  /\ Len(downloads) = 1
  /\ downloads[1].cmd = "download_vod"
  /\ selectedQuality = Q480.id /\ startTime = <<>> /\ endTime = <<>>
  /\ downloads[1].qualityId = Some(Q480.id)
  /\ downloads[1].startTime = ZeroText
  /\ downloads[1].endTime = <<>>

\* ------------------------------------------------------------------------
\* C24
\* ------------------------------------------------------------------------

\* The preview held was obtained for the current reference.
PreviewOfCurrent ==
  /\ preview # Null
  /\ parsed # Null
  /\ preview.title = <<"title", parsed.id>>
  /\ preview.hasDuration <=> parsed.type = "video"

\* C24. The metadata held belongs to the current reference: a preview (and
\* with it a duration), a non-empty quality set or a choice of a concrete
\* quality is held only together with the preview obtained for the reference
\* the input text parses to now; a change of the reference discards them.
C24_MetadataOfCurrentReference ==
  (preview # Null \/ availableQualities # <<>> \/ selectedQuality # "auto")
    => PreviewOfCurrent

\* ------------------------------------------------------------------------
\* C25
\* ------------------------------------------------------------------------

\* The start clamp fired in the round that gave the texts held.
StartClampFired ==
  /\ calc.stage = "clamped"
  /\ StartClampFires(calc.from.start, PreviewOfDuration(calc.duration), FALSE)

\* The selected window, from the start held to the effective end, is of at
\* least 60 seconds.
WindowOfAMinute ==
  JsGe(EffectiveEnd(calc.end, PreviewOfDuration(calc.duration)),
       Num(hmsToSeconds(calc.start).v + 60))

\* C25 as stated: when the start clamp fires for a duration of at least 60
\* seconds, the start is set to the duration less 60 and the selected window
\* is of at least 60 seconds whatever the end time; for a shorter duration
\* the start is set to 0.
C25_StartClampWindow ==
  StartClampFired
    => IF calc.duration >= 60
       THEN calc.start = secondsToHms(calc.duration - 60) /\ WindowOfAMinute
       ELSE calc.start = ZeroText

\* C25 amended: when the start clamp fires for a duration of at least 60
\* seconds, the start is set to the duration less 60, and the selected
\* window is of at least 60 seconds exactly when the end time is blank or
\* is not below the duration (the effective end is then the duration); for
\* a shorter duration the start is set to 0.
C25_StartClampTarget ==
  StartClampFired
    => IF calc.duration >= 60
       THEN /\ calc.start = secondsToHms(calc.duration - 60)
            /\ WindowOfAMinute
                 <=> \/ calc.from.end = <<>>
                     \/ JsGe(hmsToSeconds(calc.from.end), Num(calc.duration))
       ELSE calc.start = ZeroText

\* C25 witness: for a duration of 120 seconds the start "00:03:00" was
\* clamped to "00:01:00" while the end is "00:01:00": the window is empty.
C25_Witness ==
  /\ StartClampFired
  /\ calc.duration = 120
  /\ calc.from.start = secondsToHms(180)
  /\ calc.start = secondsToHms(60)
  /\ calc.end = secondsToHms(60)

\* ------------------------------------------------------------------------
\* C30
\* ------------------------------------------------------------------------

\* C30. The two clamp effects terminate: after one round of them on any
\* start, end and known duration, neither fires on the texts it left (each
\* fires at most once per write), and a further round changes nothing.
C30_ClampsTerminate ==
  calc.stage = "clamped"
    => /\ ~StartClampFires(calc.start, PreviewOfDuration(calc.duration),
                           FALSE)
       /\ ~EndClampFires(calc.end, PreviewOfDuration(calc.duration), FALSE)
       /\ calc.rounds > 1
            => calc.start = calc.from.start /\ calc.end = calc.from.end

\* C30 witness: for a duration of 120 seconds both effects fired on the
\* texts "00:03:00", and the second round left "00:01:00" and "00:02:00".
C30_Witness ==
  /\ calc.stage = "clamped" /\ calc.rounds = 2
  /\ calc.duration = 120
  /\ calc.from.from.start = secondsToHms(180)
  /\ calc.from.from.end = secondsToHms(180)
  /\ calc.start = secondsToHms(60)
  /\ calc.end = secondsToHms(120)

\* ------------------------------------------------------------------------
\* C26
\* ------------------------------------------------------------------------

\* The sub-field (1 hours, 2 minutes, 3 seconds) of a caret position as the
\* claim states it, and as the colons belong to the field before them.
SubFieldStated(p) == IF p < 2 THEN 1 ELSE IF p < 5 THEN 2 ELSE 3

SubFieldBefore(p) == IF p <= 2 THEN 1 ELSE IF p <= 5 THEN 2 ELSE 3

\* The key went into sub-field f as its low digit, and the two other
\* sub-fields hold what they held (padded to two characters).
EditedOnly(f) ==
  /\ Len(SplitColon(calc.newValue)) = 3
  /\ LET new == SplitColon(calc.newValue)[f]
     IN Len(new) = 2 /\ new[2] = calc.key
  /\ \A k \in (1..3) \ {f} :
       SplitColon(calc.newValue)[k] = parseTimeString(calc.value)[k]

\* C26 as stated: a digit key at caret position p edits exactly one
\* sub-field, the hours for p in [0,2), the minutes for p in [2,5) and the
\* seconds for p >= 5, and leaves the two others unchanged.
C26_SubFieldStated ==
  calc.stage = "edited" => EditedOnly(SubFieldStated(calc.cursorPos))

\* C26 amended: a digit key at caret position p edits exactly one sub-field,
\* the hours for p in [0,2], the minutes for p in [3,5] and the seconds for
\* p >= 6 (the colon positions 2 and 5 belong to the field before them), and
\* leaves the two others unchanged.
C26_SubFieldEdited ==
  calc.stage = "edited" => EditedOnly(SubFieldBefore(calc.cursorPos))

\* C26 witness: the key 5 at caret 2 of "01:01:01" went into the hours.
C26_Witness ==
  /\ calc.stage = "edited"
  /\ calc.cursorPos = 2 /\ calc.key = "5"
  /\ calc.value = secondsToHms(3661)
  /\ calc.newValue = <<"1", "5", ":", "0", "1", ":", "0", "1">>

\* ------------------------------------------------------------------------
\* C27
\* ------------------------------------------------------------------------

\* The index of the high digit of the sub-field a caret position is in.
HighIndex(p) == IF p <= 2 THEN 1 ELSE IF p <= 5 THEN 4 ELSE 7

\* A well-formed text with the low digit of the sub-field at caret p moved
\* to its high digit and the key put in as its low digit.
ShiftedIn(text, p, key) ==
  [i \in 1..8 |->
     IF i = HighIndex(p) THEN text[HighIndex(p) + 1]
     ELSE IF i = HighIndex(p) + 1 THEN key
     ELSE text[i]]

\* The caret one position on, a colon skipped, and 8 at most.
Advanced(p) ==
  LET q == IF p >= 8 THEN 8 ELSE p + 1
  IN IF q \in {2, 5} THEN q + 1 ELSE q

\* C27. A digit key moves the low digit of the sub-field at the caret to its
\* high digit and puts the new digit in as the low digit, and the caret
\* then moves to the next position, colons skipped, 8 at most: 5 typed at
\* caret 0 of "00:00:00" gives "05:00:00" and caret 1, and 3 typed next
\* gives "53:00:00" and caret 3.  The start and the end field do the same,
\* and a key of one leaves the text and the caret of the other as they are.
C27_DigitShiftsIn ==
  /\ handleTimeInput(secondsToHms(0), "5", 0)
       = <<"0", "5", ":", "0", "0", ":", "0", "0">>
  /\ NextPos(0) = 1
  /\ handleTimeInput(<<"0", "5", ":", "0", "0", ":", "0", "0">>, "3", 1)
       = <<"5", "3", ":", "0", "0", ":", "0", "0">>
  /\ NextPos(1) = 3
  /\ [][\A key \in EditorKeys :
          /\ KeyDigit("start", key)
               => /\ startTime' = ShiftedIn(startTime, carets.start, key)
                  /\ carets'.start = Advanced(carets.start)
                  /\ endTime' = endTime /\ carets'.end = carets.end
          /\ KeyDigit("end", key)
               => /\ endTime' = ShiftedIn(EndBuffer, carets.end, key)
                  /\ carets'.end = Advanced(carets.end)
                  /\ startTime' = startTime
                  /\ carets'.start = carets.start]_vars

\* C27 witness: 5 and then 3 were typed into the start field, and 5 into
\* the end field.
C27_Witness ==
  /\ startTime = <<"5", "3", ":", "0", "0", ":", "0", "0">>
  /\ carets.start = 3
  /\ endTime = <<"0", "5", ":", "0", "0", ":", "0", "0">>
  /\ carets.end = 1

\* ------------------------------------------------------------------------
\* C28
\* ------------------------------------------------------------------------

\* The value of segment k of a text: 0 when the segment is missing or does
\* not parse.
SegmentValue(text, k) ==
  IF k <= Len(SplitColon(text)) THEN ParseIntOr0(SplitColon(text)[k]) ELSE 0

\* C28. hmsToSeconds is lenient: for a text of digit segments it returns a
\* non-negative integer, 0 when the text holds no colon, and otherwise the
\* hours, minutes and seconds of its first three segments, a segment that
\* is missing or does not parse counting 0; "H:M" gives H*3600 + M*60.
C28_LenientDecode ==
  calc.stage = "seconds"
    => /\ ~calc.sec.nan
       /\ calc.sec.v >= 0
       /\ calc.sec.v =
            IF ":" \in Chars(calc.text)
            THEN SegmentValue(calc.text, 1) * 3600
                   + SegmentValue(calc.text, 2) * 60
                   + SegmentValue(calc.text, 3)
            ELSE 0

\* ------------------------------------------------------------------------
\* C29
\* ------------------------------------------------------------------------

\* C29. The quality selection is "auto" or the id of a member of the
\* quality set held.
C29_SelectionInQualitySet ==
  \/ selectedQuality = "auto"
  \/ \E i \in 1..Len(availableQualities) :
       availableQualities[i].id = selectedQuality

\* ------------------------------------------------------------------------
\* C31
\* ------------------------------------------------------------------------

\* A masked text HH:MM:SS: eight characters, colons at indices 2 and 5 and
\* a decimal digit everywhere else.
WellFormedTime(t) ==
  /\ Len(t) = 8
  /\ t[3] = ":" /\ t[6] = ":"
  /\ \A i \in {1, 2, 4, 5, 7, 8} : IsDigit(t[i])

\* The step writes the text of `field` or moves its caret.  Of the editor
\* these are the digit keys, Backspace, the clicks, the focus and the
\* arrow keys.
FieldStep(field) ==
  \/ FieldText(field)' # FieldText(field)
  \/ carets'[field] # carets[field]

\* C31: from a well-formed buffer with the caret in 0..8, every digit key,
\* Backspace and click leaves the text of the field eight characters long
\* with two decimal digits in each sub-field and colons at indices 2 and 5,
\* and leaves the caret in 0..8.
C31_EditsKeepMask ==
  [][\A field \in EditorFields :
       (/\ WellFormedTime(FieldBuffer(field))
        /\ carets[field] \in 0..8
        /\ FieldStep(field))
       => /\ WellFormedTime(FieldText(field))'
          /\ carets'[field] \in 0..8]_vars

\* Hours filled and shifted back, minutes and seconds typed, the caret at
\* the end of the text.
C31_Witness ==
  /\ startTime = <<"0", "3", ":", "0", "5", ":", "3", "5">>
  /\ carets.start = 8

\* ------------------------------------------------------------------------
\* C32
\* ------------------------------------------------------------------------

\* A capture-open request has succeeded and its capture has not completed.
CaptureOpen == \E i \in 1..Len(saves) : saves[i] = Save("login", "open")

\* C32. The awaiting-capture indicator is true only while the settings
\* session is open: with a succeeded capture-open request whose capture
\* has not completed, the indicator is not true once the session has been
\* closed, the request having been pending at the close or not.
C32_IndicatorWithinSession ==
  (loginWebviewOpen /\ CaptureOpen) => showSettings

\* ------------------------------------------------------------------------
\* C33
\* ------------------------------------------------------------------------

\* The credential mirror holds a value written since the start: a typed
\* field or a captured pair (both fields start empty).
MirrorWritten == nidAuth # "" \/ nidSession # ""

\* C33. The result of the startup credential load never overwrites newer
\* credential state: when load_credentials resolves after a credential
\* field was edited or a capture was applied, the credential mirror keeps
\* the values it held.
C33_LoadKeepsNewerCredentials ==
  [][\A creds \in LoadResults :
       (MirrorWritten /\ LoadCredentialsResolve(creds))
       => UNCHANGED <<nidAuth, nidSession>>]_vars

====
